---- MODULE Spec2Model ----
(***************************************************************************)
(* A model of pwnlib.rop (rop.py, srop.py): the ROP chain builder, its     *)
(* gadget dependency graph and topological sort, and the two-pass build(). *)
(***************************************************************************)
EXTENDS Integers, Sequences, FiniteSets, TLC

\* ------------------------------------------------------------------ bounds

\* Number of nodes of the graphs the topological sort is run on.
NumNodes == 3

\* Longest chain element list the builder is driven to.
MaxChain == 2

\* Number of build() calls made in a row on one chain.
MaxBuilds == 2

\* The count of init_classify_and_solver runs on one object stops here.
MaxInits == 2

\* Number of assignments made in a row to one SigreturnFrame.
MaxSets == 2

\* ------------------------------------------------------------ Python helpers

\* Python's None.
None == "None"

Range(s) == {s[i] : i \in DOMAIN s}

\* All orderings of a finite set, as sequences without repetition.
Perms(S) == {s \in [1..Cardinality(S) -> S] : Range(s) = S}

\* The elements of s that are in S, in the order of s.
RECURSIVE Filter(_, _)
Filter(s, S) ==
    IF s = <<>> THEN <<>>
    ELSE IF Head(s) \in S THEN <<Head(s)>> \o Filter(Tail(s), S)
         ELSE Filter(Tail(s), S)

\* Iteration over a dict's keys or over a set: Python 2 walks the hash table,
\* an order the program does not choose.  `ord` is that order, a sequence
\* holding every possible key once.
Items(S, ord) == Filter(ord, S)

\* The elements of s at the positions of idx, in order.
RECURSIVE Filter2At(_, _, _)
Filter2At(s, idx, i) ==
    IF i > Len(s) THEN <<>>
    ELSE (IF i \in idx THEN <<s[i]>> ELSE <<>>) \o Filter2At(s, idx, i + 1)

Filter2(s, idx) == Filter2At(s, idx, 1)

\* seq.index(x): the first position of x, counted from 0; None stands for the
\* ValueError of a missing element.
Index(s, x) ==
    IF \E i \in DOMAIN s : s[i] = x
    THEN (CHOOSE i \in DOMAIN s : s[i] = x /\ \A j \in 1..(i - 1) : s[j] # x) - 1
    ELSE None

Reverse(s) == [i \in DOMAIN s |-> s[Len(s) + 1 - i]]

\* ---------------------------------------------------------- topological sort
\* A graph is a dict {node: set of successors}: a function whose domain is the
\* set of keys.

Edges(graph) == UNION {{<<k, h>> : h \in graph[k]} : k \in DOMAIN graph}

\* The keys of the indegree dict: every key of the graph and every successor.
IndegreeKeys(graph) == (DOMAIN graph) \cup UNION {graph[k] : k \in DOMAIN graph}

\* indegree[g] = number of edges into g.
InitIndegree(graph) ==
    [g \in IndegreeKeys(graph) |-> Cardinality({k \in DOMAIN graph : g \in graph[k]})]

\* indegree_zero as first filled: the nodes of indegree 0 in dict order.
InitIndegreeZero(indegree, ord) ==
    Items({g \in DOMAIN indegree : indegree[g] = 0}, ord)

\* for m in graph[n]: indegree[m] -= 1; if indegree[m] == 0: indegree_zero.append(m)
RECURSIVE Relax(_, _, _)
Relax(ms, indegree, indegree_zero) ==
    IF ms = <<>> THEN [indegree |-> indegree, indegree_zero |-> indegree_zero]
    ELSE LET m == Head(ms)
             dec == [indegree EXCEPT ![m] = @ - 1]
         IN Relax(Tail(ms), dec,
                  IF dec[m] = 0 THEN Append(indegree_zero, m) ELSE indegree_zero)

\* del(graph[n])
DelKey(graph, n) == [k \in (DOMAIN graph) \ {n} |-> graph[k]]

\* The while loop: pop the last node of indegree_zero, append it to top_sorted,
\* relax its successors, delete it from the graph.
RECURSIVE TopLoop(_, _, _, _, _)
TopLoop(graph, indegree, indegree_zero, top_sorted, ord) ==
    IF Len(indegree_zero) = 0
    THEN [graph |-> graph, indegree |-> indegree, top_sorted |-> top_sorted]
    ELSE LET n == indegree_zero[Len(indegree_zero)]
             popped == SubSeq(indegree_zero, 1, Len(indegree_zero) - 1)
         IN IF n \notin DOMAIN graph
            THEN TopLoop(graph, indegree, popped, Append(top_sorted, n), ord)
            ELSE LET r == Relax(Items(graph[n], ord), indegree, popped)
                 IN TopLoop(DelKey(graph, n), r.indegree, r.indegree_zero,
                            Append(top_sorted, n), ord)

\* The edge the cycle-breaking step deletes: the first g (in dict order) with
\* indegree > 1 that some remaining key k points to, and the first such k.
\* <<>> when there is none.
PickEdge(graph, indegree, ord) ==
    LET gs == Items({g \in DOMAIN indegree :
                        /\ indegree[g] > 1
                        /\ \E k \in DOMAIN graph : g \in graph[k]}, ord)
    IN IF gs = <<>> THEN <<>>
       ELSE LET g == Head(gs)
                k == Head(Items({x \in DOMAIN graph : g \in graph[x]}, ord))
            IN <<k, g>>

\* A cycle-breaking step that leaves the edge in the graph.
KeepEdge(graph, k, h) == graph

\* graph[k].remove(h)
RemoveEdge(graph, k, h) == [graph EXCEPT ![k] = @ \ {h}]

\* _global_delete_gadget[k].add(h), creating the set on first use.
RecordDeleted(deleted, k, h) ==
    [x \in (DOMAIN deleted) \cup {k} |->
        IF x = k THEN (IF k \in DOMAIN deleted THEN deleted[k] ELSE {}) \cup {h}
        ELSE deleted[x]]

\* if not last_result: last_result = []
OrEmpty(res) == IF res.isNone \/ res.value = <<>> THEN <<>> ELSE res.value

\* ROP.__build_top_sort.  Returns the function's return value (isNone: the
\* function fell off its end and returned None), the final
\* _global_delete_gadget, and for each invocation the <<keys, edges>> size of
\* the graph it was called on.
RECURSIVE build_top_sort(_, _, _)
build_top_sort(graph, deleted, ord) ==
    LET indegree == InitIndegree(graph)
        st == TopLoop(graph, indegree, InitIndegreeZero(indegree, ord), <<>>, ord)
        size == <<Cardinality(DOMAIN graph), Cardinality(Edges(graph))>>
    IN IF Cardinality(DOMAIN st.graph) = 0
       THEN [isNone |-> FALSE, value |-> st.top_sorted,
             deleted |-> deleted, calls |-> <<size>>]
       ELSE LET e == PickEdge(st.graph, st.indegree, ord)
            IN IF e = <<>>
               THEN [isNone |-> TRUE, value |-> <<>>,
                     deleted |-> deleted, calls |-> <<size>>]
               ELSE LET reduced == RemoveEdge(st.graph, e[1], e[2])
                        last == build_top_sort(reduced,
                                               RecordDeleted(deleted, e[1], e[2]), ord)
                    IN [isNone |-> FALSE, value |-> st.top_sorted \o OrEmpty(last),
                        deleted |-> last.deleted, calls |-> <<size>> \o last.calls]

\* ------------------------------------------------------------- architecture

Arches == {"i386", "amd64"}

\* context.bytes: the pointer width of the selected architecture.
context_bytes(arch) == IF arch = "amd64" THEN 8 ELSE 4

\* self.align = max(e.elfclass for e in elfs) / 8
align(arch) == IF arch = "amd64" THEN 64 \div 8 ELSE 32 \div 8

\* srop.registers[arch].context
registers ==
    [i386 |-> <<"gs", "fs", "es", "ds", "edi", "esi", "ebp", "esp", "ebx",
                "edx", "ecx", "eax", "trapno", "err", "eip", "cs", "eflags",
                "esp_at_signal", "ss", "fpstate">>,
     amd64 |-> <<"uc_flags", "&uc", "uc_stack.ss_sp", "uc_stack.ss_flags",
                 "uc_stack.ss_size", "r8", "r9", "r10", "r11", "r12", "r13",
                 "r14", "r15", "rdi", "rsi", "rbp", "rbx", "rdx", "rax", "rcx",
                 "rsp", "rip", "eflags", "csgsfs", "err", "trapno", "oldmask",
                 "cr2", "&fpstate", "__reserved", "sigmask">>,
     arm |-> <<"uc_flags", "uc_link", "uc_stack.ss_sp", "uc_stack.ss_flags",
               "uc_stack.ss_size", "trap_no", "error_code", "oldmask", "r0",
               "r1", "r2", "r3", "r4", "r5", "r6", "r7", "r8", "r9", "r10",
               "fp", "ip", "sp", "lr", "pc", "cpsr", "fault_address",
               "uc_sigmask", "__unused", "uc_regspace">>]

\* srop.defaults[arch]
defaults ==
    [i386 |-> [cs |-> 115, ss |-> 123],
     amd64 |-> [csgsfs |-> 51],
     arm |-> [trap_no |-> 6, cpsr |-> 1073741840]]

instruction_pointers == [i386 |-> "eip", amd64 |-> "rip", arm |-> "pc"]

stack_pointers == [i386 |-> "esp", amd64 |-> "rsp", arm |-> "sp"]

syscall_instructions ==
    [i386 |-> <<"int 0x80", "syscall", "sysenter">>,
     amd64 |-> <<"int 0x80", "syscall", "sysenter">>,
     arm |-> <<"svc 0">>]

\* The names of the registers the model's gadgets use, by the two-letter
\* suffix build_graph matches on.
RegName ==
    [i386 |-> [di |-> "edi", si |-> "esi", ax |-> "eax", sp |-> "esp", bp |-> "ebp"],
     amd64 |-> [di |-> "rdi", si |-> "rsi", ax |-> "rax", sp |-> "rsp", bp |-> "rbp"]]

\* i[-2:] of a register name.
Suffix(r) ==
    CASE r \in {"edi", "rdi"} -> "di"
      [] r \in {"esi", "rsi"} -> "si"
      [] r \in {"eax", "rax"} -> "ax"
      [] r \in {"esp", "rsp"} -> "sp"
      [] r \in {"ebp", "rbp"} -> "bp"
      [] r = "leave" -> "ve"
      [] OTHER -> r

\* ------------------------------------------------------------------- values
\* What a chain element or a stack slot can be.  Every kind is a record with
\* its own field names.

IntV(n) == [t |-> "int", int |-> n]
StrV(b) == [t |-> "str", str |-> b]
NoneV == [t |-> "None"]
GadgetV(a) == [t |-> "Gadget", address |-> a]
Padding == [t |-> "Padding"]
CurrentStackPointer == [t |-> "CurrentStackPointer"]
NextGadgetAddress == [t |-> "NextGadgetAddress"]
AppendedArgument(values) == [t |-> "AppendedArgument", values |-> values]
\* The closure ROP.__getattr__ returns for a name that is no gadget shorthand.
CallShorthand(attr) == [t |-> "function", attr |-> attr]
ABI(regs, returns) == [register_arguments |-> regs, returns |-> returns]
Call(name, target, args, abi) ==
    [t |-> "Call", name |-> name, target |-> target, args |-> args, abi |-> abi]

\* bool(x) of a value.
Truthy(v) ==
    CASE v.t = "None" -> FALSE
      [] v.t = "int" -> v.int # 0
      [] v.t = "str" -> Len(v.str) > 0
      [] OTHER -> TRUE

\* ------------------------------------------------------------------ gadgets
\* A Gadget has an address, its instructions, the stack move and regs, a dict
\* {destination register: source}.  A source is a stack read, another
\* register, or an immediate.

Mem(reg, offset) == [s |-> "Mem", reg |-> reg, offset |-> offset]
RegSrc(reg) == [s |-> "reg", reg |-> reg]

\* The move of a gadget that assigns the stack pointer (leave): the sentinel
\* 9999999999 scaled down to the model's integers; larger than every other move.
LeaveMove == 96

NoRegs == [r \in {} |-> Mem("", 0)]

Gadget(address, insns, regs, move) ==
    [address |-> address, insns |-> insns, regs |-> regs, move |-> move]

OneReg(dst, src) == [r \in {dst} |-> src]

TwoRegs(d1, s1, d2, s2) == [r \in {d1, d2} |-> IF r = d1 THEN s1 ELSE s2]

\* The gadgets a binary of the model may hold, by address.
Catalogue(arch) ==
    LET w == align(arch)
        R == RegName[arch]
        gs == { Gadget(101, <<"pop di", "ret">>, OneReg(R.di, Mem(R.sp, 0)), 2 * w),
                Gadget(102, <<"pop si", "ret">>, OneReg(R.si, Mem(R.sp, 0)), 2 * w),
                Gadget(103, <<"mov di, si", "ret">>, OneReg(R.di, RegSrc(R.si)), w),
                Gadget(104, <<"mov si, di", "ret">>, OneReg(R.si, RegSrc(R.di)), w),
                Gadget(105, <<"add sp, 0x10", "ret">>, NoRegs, 16 + w),
                Gadget(106, <<"pop ax", "ret">>, OneReg(R.ax, Mem(R.sp, 0)), 2 * w),
                Gadget(107, <<"int 0x80">>, NoRegs, 0),
                Gadget(108, <<"pop sp", "ret">>, OneReg(R.sp, Mem(R.sp, 0)), 2 * w),
                Gadget(109, <<"pop bp", "ret">>, OneReg(R.bp, Mem(R.sp, 0)), 2 * w),
                Gadget(110, <<"leave", "ret">>,
                       TwoRegs(R.sp, RegSrc(R.bp), R.bp, Mem(R.bp, 0)), LeaveMove),
                Gadget(111, <<"pop sp", "pop bp", "ret">>,
                       TwoRegs(R.sp, Mem(R.sp, 0), R.bp, Mem(R.sp, w)), 3 * w),
                Gadget(112, <<"pop di", "pop si", "ret">>,
                       TwoRegs(R.di, Mem(R.sp, 0), R.si, Mem(R.sp, w)), 3 * w),
                Gadget(113, <<"add sp, 0xe", "ret">>, NoRegs, 14 + w) }
    IN [a \in {g.address : g \in gs} |-> CHOOSE g \in gs : g.address = a]

\* ---------------------------------------------------------- gadget search

\* A search that does not look at the move.
SearchIterAnyMove(gadgets, move, regs) ==
    {a \in DOMAIN gadgets : regs \subseteq DOMAIN gadgets[a].regs}

\* ROP.search_iter: the gadgets that move the stack by at least `move` and set
\* every register of `regs`.
search_iter(gadgets, move, regs) ==
    {a \in DOMAIN gadgets :
        /\ ~(gadgets[a].move < move)
        /\ regs \subseteq DOMAIN gadgets[a].regs}

\* A sort key that ignores the order asked for.
SearchKeySize(order, g) == <<g.move, Cardinality(DOMAIN g.regs), g.address>>

\* The sort keys of ROP.search, compared lexicographically.
SearchKey(order, g) ==
    IF order = "size"
    THEN <<g.move, Cardinality(DOMAIN g.regs), g.address>>
    ELSE <<Cardinality(DOMAIN g.regs), g.move, g.address>>

LexLess(x, y) ==
    \/ x[1] < y[1]
    \/ x[1] = y[1] /\ x[2] < y[2]
    \/ x[1] = y[1] /\ x[2] = y[2] /\ x[3] < y[3]

\* ROP.search: min(matches, key), None when there is no match.
search(gadgets, move, regs, order) ==
    LET matches == search_iter(gadgets, move, regs)
    IN IF matches = {} THEN NoneV
       ELSE GadgetV(CHOOSE a \in matches : \A b \in matches \ {a} :
                LexLess(SearchKey(order, gadgets[a]), SearchKey(order, gadgets[b])))

x86_suffixes ==
    {"ax", "bx", "cx", "dx", "bp", "sp", "di", "si",
     "r8", "r9", "10", "11", "12", "13", "14", "15"}

\* ROP.__getattr__ for one name that is no instance attribute: a register name
\* is a search by register; any other name is the rop.call() shorthand.
getattr(gadgets, attr) ==
    IF Suffix(attr) \in x86_suffixes
    THEN search(gadgets, 0, {attr}, "regs")
    ELSE CallShorthand(attr)

\* x or y
Or(x, y) == IF Truthy(x) THEN x ELSE y

\* ROP.find_gadget: a gadget with exactly these instructions.
find_gadget(gadgets, instructions, ord) ==
    LET hits == Items({a \in DOMAIN gadgets : gadgets[a].insns = instructions}, ord)
    IN IF hits = <<>> THEN NoneV ELSE GadgetV(Head(hits))

\* ------------------------------------------- classification and the graph

\* GadgetClassifier.classify: the gadget with its effects, as the gadget
\* model holds them.
classify(gadget) == gadget

\* The gadgets dict had the classification loop kept no gadget whose
\* classification moves the stack by a single word.
ClassifiedMoving(gadgets) ==
    [a \in {x \in DOMAIN gadgets : classify(gadgets[x]).move > 4} |->
        classify(gadgets[a])]

\* The gadgets dict after the classification loop of init_classify_and_solver.
Classified(gadgets) ==
    [a \in {classify(gadgets[x]).address : x \in DOMAIN gadgets} |->
        classify(gadgets[a])]

\* build_graph's outputs of a gadget: the suffixes of its destinations.
Outputs(g) == {Suffix(d) : d \in DOMAIN g.regs}

\* build_graph's inputs of a gadget: the suffixes of its register sources
\* (a Mem source is no string and is skipped).
Inputs(g) == {Suffix(g.regs[d].reg) : d \in {x \in DOMAIN g.regs : g.regs[x].s = "reg"}}

\* ROP.build_graph: an edge gad_1 -> gad_2 when gad_1 writes a register that
\* gad_2 reads.
build_graph(gadgets) ==
    [a \in DOMAIN gadgets |->
        {b \in (DOMAIN gadgets) \ {a} :
            Inputs(gadgets[b]) \cap Outputs(gadgets[a]) # {}}]

\* self.gadget_graph[d].remove(i) for every recorded deleted edge.
RemoveDeleted(graph, deleted) ==
    [a \in DOMAIN graph |->
        IF a \in DOMAIN deleted THEN graph[a] \ deleted[a] ELSE graph[a]]

\* ROP.init_classify_and_solver: the classified gadgets, the graph without
\* the deleted edges, the topological order.
init_classify_and_solver(gadgets, ord) ==
    LET gs == Classified(gadgets)
        gadget_graph == build_graph(gs)
        top == build_top_sort(gadget_graph, <<>>, ord)
    IN [gadgets |-> gs,
        gadget_graph |-> RemoveDeleted(gadget_graph, top.deleted),
        top_sorted |-> [isNone |-> top.isNone, value |-> top.value],
        global_delete_gadget |-> top.deleted]

\* --------------------------------------------------------------- verifier

\* The probe value search_path gives a register: random.randint(2**16, 2**32).
\* The verifier's verdict does not depend on the value drawn.
Probe == 65536

\* Byte j of the little-endian representation of v.
RECURSIVE ByteOf(_, _)
ByteOf(v, j) == IF j = 0 THEN v % 256 ELSE ByteOf(v \div 256, j - 1)

\* What a source evaluates to at stack displacement disp, given the registers'
\* symbolic values so far.
EvalSrc(src, disp, state) ==
    IF src.s = "Mem"
    THEN IF Suffix(src.reg) = "sp" /\ src.reg \notin DOMAIN state
         THEN [k |-> "stack", offset |-> disp + src.offset]
         ELSE [k |-> "unknown"]
    ELSE IF src.reg \in DOMAIN state THEN state[src.reg] ELSE [k |-> "unknown"]

\* Replay the effects of the gadgets of a path in order.
RECURSIVE Replay(_, _, _)
Replay(path, disp, state) ==
    IF path = <<>> THEN [sp |-> disp, state |-> state]
    ELSE LET g == Head(path)
             new == [r \in (DOMAIN state) \cup (DOMAIN g.regs) |->
                        IF r \in DOMAIN g.regs THEN EvalSrc(g.regs[r], disp, state)
                        ELSE state[r]]
         IN Replay(Tail(path), disp + g.move, new)

\* GadgetSolver.verify_path(path, conditions): (sp, stack) when every register
\* of the conditions ends up read from its own stack offset, None otherwise.
\* stack maps each needed byte offset to a byte of the little-endian value.
verify_path(path, conditions, w) ==
    LET r == Replay(path, 0, <<>>)
        ok == /\ \A reg \in DOMAIN conditions :
                    reg \in DOMAIN r.state /\ r.state[reg].k = "stack"
              /\ \A r1, r2 \in DOMAIN conditions :
                    (r1 # r2) => r.state[r1].offset # r.state[r2].offset
    IN IF ~ok THEN [isNone |-> TRUE]
       ELSE LET offs == UNION {{r.state[reg].offset + j : j \in 0..(w - 1)} :
                                   reg \in DOMAIN conditions}
                owner(o) == CHOOSE reg \in DOMAIN conditions :
                                o - r.state[reg].offset \in 0..(w - 1)
            IN [isNone |-> FALSE, sp |-> r.sp,
                stack |-> [o \in offs |->
                              ByteOf(conditions[owner(o)], o - r.state[owner(o)].offset)]]

\* ------------------------------------------------------------ path search

\* len() of the text of an instruction, the register names written in full.
InsnLen(insn) ==
    CASE insn = "ret" -> 3
      [] insn = "leave" -> 5
      [] insn = "int 0x80" -> 8
      [] insn \in {"pop di", "pop si", "pop ax", "pop sp", "pop bp"} -> 7
      [] insn \in {"mov di, si", "mov si, di"} -> 12
      [] insn = "add sp, 0x10" -> 13
      [] insn = "add sp, 0xe" -> 12
      [] OTHER -> 0

RECURSIVE SumLen(_)
SumLen(insns) == IF insns = <<>> THEN 0 ELSE InsnLen(Head(insns)) + SumLen(Tail(insns))

\* len("; ".join(gadget.insns))
GadgetTextLen(g) == SumLen(g.insns) + 2 * (Len(g.insns) - 1)

\* len(" + ".join(["; ".join(gad.insns) for gad in path])), the sort key of
\* search_path.
RECURSIVE PathTextLen(_)
PathTextLen(path) ==
    IF path = <<>> THEN 0
    ELSE GadgetTextLen(Head(path)) + (IF Len(path) > 1 THEN 3 ELSE 0)
         + PathTextLen(Tail(path))

\* The strings search_path collects as a gadget's sources.
GadgetSrcs(g) == {g.regs[d].reg : d \in DOMAIN g.regs}

\* src in i, for the register names of the model.
SubstringOf(src, name) == src = name \/ src = Suffix(name)

\* The start set of search_path.
StartSet(gadgets, src) ==
    {a \in DOMAIN gadgets : \E i \in GadgetSrcs(gadgets[a]) : SubstringOf(src, i)}

\* asm_instr_dict[the_insns]: the last gadget, in iteration order, with that
\* text.
LastWithInsns(gadgets, insns, ord) ==
    LET hits == Items({a \in DOMAIN gadgets : gadgets[a].insns = insns}, ord)
    IN hits[Len(hits)]

\* The end set of search_path: the gadgets whose text is among the texts of
\* the gadgets that write every register of regs.
EndSet(gadgets, regs, ord) ==
    {LastWithInsns(gadgets, gadgets[a].insns, ord) :
        a \in {x \in DOMAIN gadgets : regs \subseteq DOMAIN gadgets[x].regs}}

\* ROP.__find_path: every simple path from start to end, depth first.
RECURSIVE find_path(_, _, _, _, _)
RECURSIVE find_path_from(_, _, _, _, _)
find_path(graph, start, end, path, ord) ==
    LET p == Append(path, start)
        here == IF start = end THEN <<p>> ELSE <<>>
    IN IF start \notin DOMAIN graph THEN here
       ELSE here \o find_path_from(graph, Items(graph[start], ord), end, p, ord)

find_path_from(graph, nodes, end, p, ord) ==
    IF nodes = <<>> THEN <<>>
    ELSE (IF Head(nodes) \in Range(p) THEN <<>>
          ELSE find_path(graph, Head(nodes), end, <<>> \o p, ord))
         \o find_path_from(graph, Tail(nodes), end, p, ord)

\* paths += list(path) for s in start, for e in end.
RECURSIVE PathsFrom(_, _, _, _)
PathsFrom(graph, starts, ends, ord) ==
    IF starts = <<>> THEN <<>>
    ELSE LET RECURSIVE ToEnds(_)
             ToEnds(es) ==
                 IF es = <<>> THEN <<>>
                 ELSE find_path(graph, Head(starts), Head(es), <<>>, ord)
                      \o ToEnds(Tail(es))
         IN ToEnds(ends) \o PathsFrom(graph, Tail(starts), ends, ord)

\* The gadgets of a path of addresses.
PathGadgets(gadgets, path) == [i \in DOMAIN path |-> gadgets[path[i]]]

\* sorted(seq, key): a stable sort by ascending key; keys[i] is the key of
\* seq[i].
RECURSIVE SortedBy(_, _)
SortedBy(seq, keys) ==
    IF seq = <<>> THEN <<>>
    ELSE LET rest == SortedBy(Tail(seq), Tail(keys))
             x == [key |-> Head(keys), item |-> Head(seq)]
             n == Cardinality({i \in DOMAIN rest : rest[i].key < x.key})
         IN SubSeq(rest, 1, n) \o <<x>> \o SubSeq(rest, n + 1, Len(rest))

\* A sort that leaves the sequence in the order it came.
Unsorted(seq, keys) == seq

Sorted(seq, keys) == LET r == SortedBy(seq, keys) IN [i \in DOMAIN r |-> r[i].item]

\* ROP.search_path(src, regs): the verified paths, shortest text first; None
\* when there is none.  A path is a sequence of gadget addresses.
search_path(solver, src, regs, w, ord) ==
    LET gadgets == solver.gadgets
        start == Items(StartSet(gadgets, src), ord)
        end == Items(EndSet(gadgets, regs, ord), ord)
        paths == IF Len(start) # 0 /\ Len(end) # 0
                 THEN PathsFrom(solver.gadget_graph, start, end, ord)
                 ELSE <<>>
        cond == [reg \in regs |-> Probe]
        keep == {i \in DOMAIN paths :
                    ~verify_path(PathGadgets(gadgets, paths[i]), cond, w).isNone}
        path_filted == Filter2(paths, keep)
        keys == [i \in DOMAIN path_filted |->
                    PathTextLen(PathGadgets(gadgets, path_filted[i]))]
        sorted == Sorted(path_filted, keys)
    IN IF sorted = <<>> THEN [isNone |-> TRUE, value |-> <<>>]
       ELSE [isNone |-> FALSE, value |-> sorted]

\* ------------------------------------------------------------ setRegisters
\* An operation that can raise returns a record with ok = FALSE and the error.

Raise(error) == [ok |-> FALSE, error |-> error]

\* d[k] = v
Put(d, k, v) == [x \in (DOMAIN d) \cup {k} |-> IF x = k THEN v ELSE d[x]]

\* values.items(): the registers of a dict in iteration order.
RegItems(regs, arch) == Filter(registers[arch], regs)

\* An error message that does not say which register.
NotFoundAnonymous(reg) == Raise("Gadget to reg not found!")

\* log.error("Gadget to reg %s not found!" % reg)
NotFound(reg) == Raise("Gadget to reg " \o reg \o " not found!")

\* A register list started anew for every register.
GroupRegsAnew(gadget_list, address) == <<>>

\* if last_gadget_address not in gadget_list.keys(): gadget_list[...] = []
GroupRegs(gadget_list, address) ==
    IF address \in DOMAIN gadget_list THEN gadget_list[address] ELSE <<>>

\* last_gadget_address = ropgadget[-1].address
LastGadgetAddress(ropgadget) == ropgadget[Len(ropgadget)]

\* The first loop of setRegisters, over the registers left to do: the best
\* path of each register, filed under the address of its last gadget.
RECURSIVE CollectPaths(_, _, _, _, _, _)
CollectPaths(solver, todo, ropgadgets, gadget_list, w, ord) ==
    IF todo = <<>>
    THEN [ok |-> TRUE, ropgadgets |-> ropgadgets, gadget_list |-> gadget_list]
    ELSE LET reg == Head(todo)
             found == search_path(solver, "sp", {reg}, w, ord)
         IN IF found.isNone THEN NotFound(reg)
            ELSE LET ropgadget == found.value[1]
                     last_gadget_address == LastGadgetAddress(ropgadget)
                     regs == GroupRegs(gadget_list, last_gadget_address)
                 IN CollectPaths(solver, Tail(todo),
                                 Put(ropgadgets, last_gadget_address, ropgadget),
                                 Put(gadget_list, last_gadget_address, Append(regs, reg)),
                                 w, ord)

\* The second loop of setRegisters: verify each group's path against the
\* group's values.  Unpacking the None of a failed verification is a TypeError.
RECURSIVE VerifyGroups(_, _, _, _, _, _)
VerifyGroups(solver, addresses, ropgadgets, gadget_list, values, w) ==
    IF addresses = <<>> THEN [ok |-> TRUE, out |-> <<>>]
    ELSE LET address == Head(addresses)
             regs == gadget_list[address]
             ropgadget == ropgadgets[address]
             conditions == [reg \in Range(regs) |-> values[reg]]
             v == verify_path(PathGadgets(solver.gadgets, ropgadget), conditions, w)
             rest == VerifyGroups(solver, Tail(addresses), ropgadgets, gadget_list,
                                  values, w)
         IN IF v.isNone THEN Raise("TypeError")
            ELSE IF ~rest.ok THEN rest
            ELSE [ok |-> TRUE,
                  out |-> <<[regs |-> regs, ropgadget |-> ropgadget,
                             sp |-> v.sp, stack |-> v.stack]>> \o rest.out]

\* The sort of setRegisters: by the position of the group's last gadget in the
\* reversed topological order.  Indexing None is a TypeError, a missing gadget
\* a ValueError.
OrderGroups(out, top_sorted) ==
    IF out = <<>> THEN [ok |-> TRUE, out |-> out]
    ELSE IF top_sorted.isNone THEN Raise("TypeError")
    ELSE LET rev == Reverse(top_sorted.value)
             last(i) == out[i].ropgadget[Len(out[i].ropgadget)]
         IN IF \E i \in DOMAIN out : last(i) \notin Range(rev)
            THEN Raise("ValueError")
            ELSE [ok |-> TRUE,
                  out |-> Sorted(out, [i \in DOMAIN out |-> Index(rev, last(i))])]

\* The know dict of flat_as_stack: the gadgets after the first, keyed by
\* sp / self.align.
RECURSIVE Know(_, _, _, _)
Know(path, sp, know, w) ==
    IF path = <<>> THEN know
    ELSE LET gad == Head(path)
         IN Know(Tail(path), sp + gad.move - w,
                 IF sp # 0 THEN Put(know, sp \div w, gad.address) ELSE know, w)

\* temp_packed: the sum of stack_result[i + j] << 8 * j for j from `j` up to
\* align - 1, divided by 256 ** j.
RECURSIVE Packed(_, _, _, _)
Packed(stack_result, i, j, w) ==
    IF j = w THEN 0
    ELSE stack_result[i + j] + 256 * Packed(stack_result, i, j + 1, w)

\* The while loop of flat_as_stack from offset i on.
RECURSIVE FlatLoop(_, _, _, _, _)
FlatLoop(i, move, stack_result, know, w) ==
    IF ~(i < move - w) THEN <<>>
    ELSE (IF i \in DOMAIN stack_result THEN <<IntV(Packed(stack_result, i, 0, w))>>
          ELSE IF i \in DOMAIN know THEN <<GadgetV(know[i])>>
          ELSE <<Padding>>)
         \o FlatLoop(i + w, move, stack_result, know, w)

\* ROP.flat_as_stack: each group as the list [first gadget, words...].
flat_as_stack(gadgets, ordered, w) ==
    [n \in DOMAIN ordered |->
        LET result == ordered[n]
            know == Know(PathGadgets(gadgets, result.ropgadget), 0, <<>>, w)
        IN [regs |-> result.regs,
            outrop |-> <<GadgetV(result.ropgadget[1])>>
                       \o FlatLoop(0, result.sp, result.stack, know, w)]]

\* The second loop of setRegisters over gadget_list.items(), once every
\* register has its path.
SolveGroups(solver, paths, values, w, ord) ==
    IF paths.ok
    THEN VerifyGroups(solver, Items(DOMAIN paths.gadget_list, ord),
                      paths.ropgadgets, paths.gadget_list, values, w)
    ELSE paths

\* ordered_out = OrderedDict(sorted(out, key = ...))
OrderedOut(solver, groups) ==
    IF groups.ok THEN OrderGroups(groups.out, solver.top_sorted) ELSE groups

\* return ordered_out, flattened; or the error raised on the way.
SetRegistersReturn(solver, ordered, w) ==
    IF ordered.ok
    THEN [ok |-> TRUE, solver |-> solver,
          value |-> flat_as_stack(solver.gadgets, ordered.out, w)]
    ELSE [ok |-> FALSE, solver |-> solver, error |-> ordered.error]

\* The body of setRegisters after self.init_classify_and_solver().
SetRegistersWith(solver, values, arch, ord) ==
    SetRegistersReturn(solver,
        OrderedOut(solver,
            SolveGroups(solver,
                CollectPaths(solver, RegItems(DOMAIN values, arch), <<>>, <<>>,
                             align(arch), ord),
                values, align(arch), ord)),
        align(arch))

\* ROP.setRegisters(values), values a dict {register: int}.  It classifies the
\* gadgets and builds the graph and the order anew (solver), then returns the
\* groups in order.
setRegisters(gadgets, values, arch, ord) ==
    SetRegistersWith(init_classify_and_solver(gadgets, ord), values, arch, ord)

\* ------------------------------------------------------- signal frames

\* SigreturnFrame(): every register 0, then the architecture's defaults.
SigreturnFrame(arch) ==
    [t |-> "SigreturnFrame", arch |-> arch,
     regs |-> [r \in Range(registers[arch]) |->
                  IF r \in DOMAIN defaults[arch] THEN IntV(defaults[arch][r])
                  ELSE IntV(0)]]

\* dict.__setitem__ on the frame: the key is added when it is new.
DictSet(frame, item, value) ==
    [frame EXCEPT !.regs = [r \in DOMAIN frame.regs \cup {item} |->
                               IF r = item THEN value ELSE frame.regs[r]]]

\* value & 0x7
Misaligned(value) == value.int % 8 # 0

\* The error __setitem__ reports for item and value, "" when it reports none.
SetItemError(frame, item, value) ==
    IF item \notin Range(registers[frame.arch]) THEN "Unknown register"
    ELSE IF frame.arch = "arm" /\ item = "sp" /\ Misaligned(value)
    THEN "ARM SP should be 8-bit aligned"
    ELSE ""

\* A __setitem__ that writes the dict before it reports the error.
FrameSetItemFirst(frame, item, value) ==
    [ok |-> SetItemError(frame, item, value) = "",
     error |-> SetItemError(frame, item, value),
     frame |-> DictSet(frame, item, value)]

\* SigreturnFrame.__setitem__: an unknown register and a misaligned ARM sp
\* are errors; the dict is written only after the checks.  frame is the
\* object as the call leaves it.
frame_setitem(frame, item, value) ==
    IF SetItemError(frame, item, value) # ""
    THEN [ok |-> FALSE, error |-> SetItemError(frame, item, value), frame |-> frame]
    ELSE [ok |-> TRUE, error |-> "", frame |-> DictSet(frame, item, value)]

\* A serialization that leaves out the registers holding 0.
RECURSIVE FlatNonZero(_, _, _)
FlatNonZero(frame, regs, w) ==
    IF regs = <<>> THEN <<>>
    ELSE (IF frame.regs[Head(regs)].int = 0 THEN <<>>
          ELSE [j \in 1..w |-> ByteOf(frame.regs[Head(regs)].int, j - 1)])
         \o FlatNonZero(frame, Tail(regs), w)

\* packing.pack of an integer: the word's bytes, least significant first.
pack(number, w) == [j \in 1..w |-> ByteOf(number, j - 1)]

\* flat(*[self[r] for r in regs]) with words of w bytes.
RECURSIVE flat(_, _, _)
flat(frame, regs, w) ==
    IF regs = <<>> THEN <<>>
    ELSE pack(frame.regs[Head(regs)].int, w) \o flat(frame, Tail(regs), w)

\* SigreturnFrame.__str__
frame_str(frame) == flat(frame, registers[frame.arch], context_bytes(frame.arch))

\* ABI.syscall(arch): the register holding the syscall number, then the
\* argument registers.
syscall_abi ==
    [i386 |-> <<"eax", "ebx", "ecx", "edx", "esi", "edi", "ebp">>,
     amd64 |-> <<"rax", "rdi", "rsi", "rdx", "r10", "r8", "r9">>]

\* ABI.sigreturn(): the syscall number register only; the call does not return.
sigreturn_abi(arch) == ABI(<<syscall_abi[arch][1]>>, FALSE)

\* pwnlib.constants: SYS_<name>, None for an unknown name.
SYS ==
    [i386 |-> [execve |-> 11, sigreturn |-> 119],
     amd64 |-> [execve |-> 59, sigreturn |-> 15]]

\* elf.symbols
symbols == [funcname |-> 4660]

\* ROP.resolve
resolve(resolvable) ==
    IF resolvable.t = "str"
    THEN IF resolvable.str \in DOMAIN symbols THEN IntV(symbols[resolvable.str])
         ELSE NoneV
    ELSE resolvable

\* ------------------------------------------------------------------ build

\* cyclic.cyclic(n): n bytes of a filler in which a byte tells its position;
\* the filler byte of position p is written 1000 + p.
cyclic(n) == [p \in 1..n |-> 1000 + (p - 1)]

\* s[-count:]
LastSlice(s, count) ==
    IF count = 0 \/ count > Len(s) THEN s
    ELSE SubSeq(s, Len(s) - count + 1, Len(s))

\* ROP.generatePadding
generatePadding(offset, count) == LastSlice(cyclic(offset + count), count)

\* lists.group(n, lst): pieces of n elements, the last one shorter when the
\* length is no multiple of n.
RECURSIVE group(_, _)
group(n, lst) ==
    IF Len(lst) = 0 THEN <<>>
    ELSE IF Len(lst) <= n THEN <<lst>>
    ELSE <<SubSeq(lst, 1, n)>> \o group(n, SubSeq(lst, n + 1, Len(lst)))

\* DescriptiveStack.next
StackNext(address, stack, arch) == address + Len(stack) * context_bytes(arch)

\* ROP.unresolve and ROP.describe, as the kind of text they give; "" stands
\* for the empty string and for None, which the callers treat alike.
describe(gadgets, object) ==
    CASE object.t = "int" ->
            IF \E n \in DOMAIN symbols : symbols[n] = object.int THEN "symbol"
            ELSE IF object.int \in DOMAIN gadgets THEN "insns"
            ELSE ""
      [] object.t = "str" -> "repr"
      [] object.t = "Call" -> "call"
      [] object.t = "Gadget" -> "insns"
      [] OTHER -> ""

\* stack.describe(text): the text is filed under the address of the next slot.
Described(st, text, arch) ==
    [st EXCEPT !.descriptions = Put(@, StackNext(st.address, st.stack, arch), text)]

\* A stack that grows at its head instead of its tail.
Prepended(st, items) == [st EXCEPT !.stack = items \o @]

\* stack.extend(items)
Extended(st, items) == [st EXCEPT !.stack = @ \o items]

\* len(range(start, stop, step))
RangeLen(start, stop, step) ==
    IF stop > start THEN (stop - start + step - 1) \div step ELSE 0

\* The Call's args had build() moved the stack arguments out of slot.args
\* instead of copying them.
ArgsConsumed(args, nregs, stackArguments) ==
    SubSeq(args, 1, IF nregs < Len(args) THEN nregs ELSE Len(args))

\* stackArguments = slot.args[len(register_arguments):] is a new list: the
\* Call's own args stay as they are, whatever build() appends to it.
ArgsAfterBuild(args, nregs, stackArguments) == args

\* for register, gadgets in setRegisters.items(): describe, stack.extend(gadgets)
RECURSIVE PushGroups(_, _, _)
PushGroups(st, groups, arch) ==
    IF groups = <<>> THEN st
    ELSE PushGroups(Extended(Described(st, "set", arch), Head(groups).outrop),
                    Tail(groups), arch)

\* for i, argument in enumerate(stackArguments): describe, stack.append
RECURSIVE PushArguments(_, _, _, _)
PushArguments(st, stackArguments, nextGadgetAddr, arch) ==
    IF stackArguments = <<>> THEN st
    ELSE LET argument == Head(stackArguments)
             pushed == IF argument.t = "NextGadgetAddress"
                       THEN Extended(Described(st, "<next gadget>", arch),
                                     <<IntV(nextGadgetAddr)>>)
                       ELSE Extended(Described(st,
                                        IF describe(st.gadgets, argument) = ""
                                        THEN "arg" ELSE describe(st.gadgets, argument),
                                        arch),
                                     <<argument>>)
         IN PushArguments(pushed, Tail(stackArguments), nextGadgetAddr, arch)

\* registers = dict(zip(slot.abi.register_arguments, slot.args))
ZipRegisters(register_arguments, args) ==
    LET n == IF Len(register_arguments) < Len(args)
             THEN Len(register_arguments) ELSE Len(args)
    IN [r \in {register_arguments[k] : k \in 1..n} |->
           args[CHOOSE k \in 1..n : register_arguments[k] = r].int]

\* The build state with the Call's args as the pass leaves them.
WithArgs(st, args) == [st EXCEPT !.args = args]

\* fix_bytes = (1 + len(stackArguments)) * context.bytes
FixBytes(stackArguments, arch) == (1 + Len(stackArguments)) * context_bytes(arch)

\* for pad in range(fix_bytes, adjust.move, context.bytes):
\*     stackArguments.append(Padding())
AdjustPadded(stackArguments, move, arch) ==
    stackArguments
    \o [n \in 1..RangeLen(FixBytes(stackArguments, arch), move, context_bytes(arch)) |->
           Padding]

\* The place of the first stack argument, as the loop over stackArguments
\* starts: the index of the next slot, and the adjustment gadget put before
\* it (0 for none).
ArgumentsAt(st, adjust) == [st EXCEPT !.first = Len(st.stack), !.adjust = adjust]

\* The adjustment gadget's address, then the padded arguments.
Pass1Adjusted(st, slot, padded, adjust, nextGadgetAddr, arch) ==
    WithArgs(PushArguments(ArgumentsAt(Extended(Described(st, "<adjust>", arch),
                                                <<IntV(adjust.address)>>),
                                       adjust.address),
                           padded, nextGadgetAddr, arch),
             ArgsAfterBuild(slot.args, Len(slot.abi.register_arguments), padded))

\* A padding word whether or not the Call resumes.
AlwaysPadding(st, returns) == Extended(st, <<Padding>>)

\* else: stack.append(Padding()), the branch of a Call that resumes and is
\* the last element; a Call that does not resume gets nothing.
LastPadding(st, returns) == IF returns THEN Extended(st, <<Padding>>) ELSE st

\* A Call that resumes and is not the last element: adjust is what
\* self.search(move = fix_bytes) returned.
Pass1Adjust(st, slot, stackArguments, adjust, arch) ==
    IF ~Truthy(adjust)
    THEN [st EXCEPT !.ok = FALSE, !.error = "Could not find gadget to adjust stack"]
    ELSE Pass1Adjusted(st, slot,
                       AdjustPadded(stackArguments, st.gadgets[adjust.address].move, arch),
                       adjust,
                       StackNext(st.address, st.stack, arch)
                           + st.gadgets[adjust.address].move,
                       arch)

\* What follows stack.append(slot.target): st is the build state after it.
Pass1Arguments(st, slot, stackArguments, remaining, arch) ==
    IF slot.abi.returns /\ remaining # 0
    THEN Pass1Adjust(st, slot, stackArguments,
                     search(st.gadgets, FixBytes(stackArguments, arch), {}, "size"),
                     arch)
    ELSE WithArgs(PushArguments(ArgumentsAt(LastPadding(st, slot.abi.returns), 0),
                                stackArguments,
                                StackNext(st.address, st.stack, arch)
                                    + context_bytes(arch) * Len(stackArguments),
                                arch),
                  ArgsAfterBuild(slot.args, Len(slot.abi.register_arguments),
                                 stackArguments))

\* The index of the slot the target was just appended to.
TargetAt(st) == [st EXCEPT !.target = Len(st.stack) - 1]

\* if address != stack.next: stack.describe(slot.name); stack.append(slot.target)
Pass1Target(st, slot, address, arch) ==
    TargetAt(Extended(IF address # StackNext(st.address, st.stack, arch)
                      THEN Described(st, "name", arch) ELSE st,
                      <<slot.target>>))

\* The build state after stack.describe(self.describe(slot)) and
\* self.setRegisters(registers), which returned sr.
Pass1Solved(st, sr, arch) ==
    [Described(st, "call", arch) EXCEPT
        !.gadgets = sr.solver.gadgets, !.solver = sr.solver, !.inits = @ + 1]

\* Pass 1 of build() for a Call once setRegisters returned sr.
Pass1CallWith(st, slot, remaining, sr, arch) ==
    IF ~sr.ok
    THEN [Pass1Solved(st, sr, arch) EXCEPT !.ok = FALSE, !.error = sr.error]
    ELSE Pass1Arguments(
             Pass1Target(PushGroups(Pass1Solved(st, sr, arch), sr.value, arch),
                         slot, StackNext(st.address, st.stack, arch), arch),
             slot,
             SubSeq(slot.args, Len(slot.abi.register_arguments) + 1, Len(slot.args)),
             remaining, arch)

\* Pass 1 of build() for a Call, `remaining` elements following it.
Pass1Call(st, slot, remaining, arch, ord) ==
    Pass1CallWith(st, slot, remaining,
                  setRegisters(st.gadgets,
                               ZipRegisters(slot.abi.register_arguments, slot.args),
                               arch, ord),
                  arch)

\* for chunk in lists.group(context.bytes, slot): stack.append(chunk)
Pass1Chunks(st, chunks) == Extended(st, [n \in DOMAIN chunks |-> StrV(chunks[n])])

\* for register in slot.registers: describe, stack.append(slot[register])
RECURSIVE Pass1Frame(_, _, _, _)
Pass1Frame(st, frame, regs, arch) ==
    IF regs = <<>> THEN st
    ELSE Pass1Frame(Extended(Described(st, Head(regs), arch),
                             <<frame.regs[Head(regs)]>>),
                    frame, Tail(regs), arch)

\* Pass 1 of build() for the chain element slot.
Pass1Slot(st, slot, remaining, arch, ord) ==
    CASE slot.t = "int" ->
           Extended(Described(st, describe(st.gadgets, slot), arch), <<slot>>)
      [] slot.t = "str" ->
           Pass1Chunks(Described(st, describe(st.gadgets, slot), arch),
                       group(context_bytes(arch),
                             slot.str
                             \o generatePadding(StackNext(st.address, st.stack, arch),
                                                Len(slot.str) % context_bytes(arch))))
      [] slot.t = "SigreturnFrame" ->
           Pass1Frame(Described(st, "Sigreturn Frame", arch), slot,
                      registers[slot.arch], arch)
      [] slot.t = "Call" -> Pass1Call(st, slot, remaining, arch, ord)
      [] OTHER -> Extended(st, <<slot>>)

\* The build state after the element idx: r is what Pass1Slot returned.  An
\* exception leaves the chain element list as it was.  calls keeps, for each
\* Call, where the pass put its target and its first stack argument.
Pass1Done(st, r, idx) ==
    IF r.ok /\ st.chain[idx].t = "Call"
    THEN [r EXCEPT !.chain = [st.chain EXCEPT ![idx].args = r.args],
                   !.calls = Append(@, [idx |-> idx, target |-> r.target,
                                        first |-> r.first, adjust |-> r.adjust])]
    ELSE [r EXCEPT !.chain = st.chain]

\* The first pass of build() from chain element idx on.  st.chain is the
\* chain element list as the pass leaves it.
RECURSIVE Pass1(_, _, _, _)
Pass1(st, idx, arch, ord) ==
    IF idx > Len(st.chain) \/ ~st.ok THEN st
    ELSE Pass1(Pass1Done(st,
                         Pass1Slot(WithArgs(st, <<>>), st.chain[idx],
                                   Len(st.chain) - idx, arch, ord),
                         idx),
               idx + 1, arch, ord)

\* stack = DescriptiveStack(base): address = base or 0.
DescriptiveStack(base) == base

\* AppendedArgument.resolve(address): the values to append at the tail.
AppendedResolve(slot, address) == slot.values

\* A slot address that counts slots, not bytes.
SlotAddressUnscaled(address, i, arch) == address + i

\* The address pass 2 uses for the slot of index i (counted from 0).
SlotAddress(address, i, arch) == address + i * context_bytes(arch)

\* One step of the second pass of build(): the slot of index i (counted from
\* 0) resolved in place; an AppendedArgument also extends the stack.
Pass2Slot(stack, address, i, arch) ==
    LET w == context_bytes(arch)
        slot == stack[i + 1]
        slot_address == SlotAddress(address, i, arch)
        next == StackNext(address, stack, arch)
    IN CASE slot.t = "AppendedArgument" ->
              [stack EXCEPT ![i + 1] = IntV(next)] \o AppendedResolve(slot, next)
         [] slot.t = "CurrentStackPointer" ->
              [stack EXCEPT ![i + 1] = IntV(slot_address)]
         [] slot.t = "Padding" ->
              [stack EXCEPT ![i + 1] = StrV(generatePadding(i * w, w))]
         [] slot.t = "Gadget" ->
              [stack EXCEPT ![i + 1] = IntV(slot.address)]
         [] OTHER -> stack

\* The description pass 2 records for the slot of index i, "" when none.
Pass2Describe(stack, i) ==
    CASE stack[i + 1].t = "Padding" -> "<pad>"
      [] stack[i + 1].t = "Gadget" -> "insns"
      [] OTHER -> ""

\* ------------------------------------------------- the builder's methods
\* A method takes the fields of the ROP object it reads (self) and returns
\* them as it leaves them, with ok = FALSE when it raised.

\* raw() as it would be without its check of self.migrated.
RawUnchecked(self, value) == [self EXCEPT !.chain = Append(@, value)]

\* ROP.raw
raw(self, value) ==
    IF self.migrated
    THEN [self EXCEPT !.ok = FALSE, !.error = "Cannot append to a migrated chain"]
    ELSE [self EXCEPT !.chain = Append(@, value)]

\* for instruction in syscall_instructions: the first instruction, from
\* position n on, that find_gadget has a gadget for; None when there is none.
RECURSIVE FindSyscallGadget(_, _, _, _)
FindSyscallGadget(gadgets, instructions, n, ord) ==
    IF n > Len(instructions) THEN NoneV
    ELSE IF Truthy(find_gadget(gadgets, <<instructions[n]>>, ord))
    THEN find_gadget(gadgets, <<instructions[n]>>, ord)
    ELSE FindSyscallGadget(gadgets, instructions, n + 1, ord)

\* for register, value in zip(frame.arguments, arguments): frame[register] = value
RECURSIVE SetArguments(_, _, _, _)
SetArguments(f, arguments, n, arch) ==
    IF n > Len(arguments) \/ n > Len(syscall_abi[arch]) - 1 \/ ~f.ok THEN f
    ELSE SetArguments(frame_setitem(f.frame, syscall_abi[arch][n + 1], arguments[n]),
                      arguments, n + 1, arch)

\* frame.pc = syscall_gadget; frame.syscall = syscall_number; the arguments.
SyscallFrame(syscall_gadget, syscall_number, arguments, arch) ==
    SetArguments(
        frame_setitem(
            frame_setitem(SigreturnFrame(arch), instruction_pointers[arch],
                          syscall_gadget).frame,
            syscall_abi[arch][1], IntV(syscall_number)),
        arguments, 1, arch)

\* self.raw(call); self.raw(frame); self.migrated = True; return True
SropAppend(self, syscall_gadget, frame, arch) ==
    IF ~frame.ok THEN [self EXCEPT !.ok = FALSE, !.error = frame.error]
    ELSE [raw(raw(self, Call("SYS_sigreturn", syscall_gadget,
                             <<IntV(SYS[arch].sigreturn)>>, sigreturn_abi(arch))),
              frame.frame)
          EXCEPT !.migrated = TRUE, !.handled = TRUE]

\* _srop_call once the syscall number is known.
SropWith(self, syscall_gadget, syscall_number, arguments, arch) ==
    IF ~Truthy(syscall_gadget)
    THEN [self EXCEPT !.ok = FALSE, !.error = "Could not find any instructions"]
    ELSE SropAppend(self, syscall_gadget,
                    SyscallFrame(syscall_gadget, syscall_number, arguments, arch),
                    arch)

\* ROP._srop_call.  handled = FALSE is its return value False.  It is called
\* on a chain that is not migrated, so neither raw() raises.
srop_call(self, resolvable, arguments, arch, ord) ==
    IF resolvable \notin DOMAIN SYS[arch]
    THEN [self EXCEPT !.handled = FALSE]
    ELSE SropWith(self,
                  FindSyscallGadget(self.gadgets, syscall_instructions[arch], 1, ord),
                  SYS[arch][resolvable], arguments, arch)

\* elif not self._srop_call(resolvable, arguments): log.error(...)
CallSrop(r) ==
    IF r.ok /\ ~r.handled THEN [r EXCEPT !.ok = FALSE, !.error = "Could not resolve"]
    ELSE r

\* ROP.call
call(self, resolvable, arguments, abi, arch, ord) ==
    IF self.migrated
    THEN [self EXCEPT !.ok = FALSE, !.error = "Cannot append to a migrated chain"]
    ELSE IF Truthy(resolve(resolvable))
    THEN raw(self, Call(resolvable.str, resolve(resolvable), arguments, abi))
    ELSE CallSrop(srop_call([self EXCEPT !.handled = FALSE], resolvable.str,
                            arguments, arch, ord))

\* len(gadget.regs) of the gadget a search returned.
NumRegs(gadgets, g) == Cardinality(DOMAIN gadgets[g.address].regs)

\* A migrate that seals the chain before it looks for the gadgets.
MigrateSealedFirst(self, next_base, pop_sp, pop_bp, leave) ==
    IF Truthy(pop_sp) /\ NumRegs(self.gadgets, pop_sp) = 1
    THEN [raw(raw(self, pop_sp), IntV(next_base)) EXCEPT !.migrated = TRUE]
    ELSE IF Truthy(pop_bp) /\ Truthy(leave) /\ NumRegs(self.gadgets, pop_bp) = 1
    THEN [raw(raw(raw(self, pop_bp), IntV(next_base - 4)), leave)
          EXCEPT !.migrated = TRUE]
    ELSE [self EXCEPT !.ok = FALSE, !.error = "Cannot find the gadgets to migrate",
                      !.migrated = TRUE]

\* The body of migrate once the three attributes are looked up.
MigrateWith(self, next_base, pop_sp, pop_bp, leave) ==
    IF Truthy(pop_sp) /\ NumRegs(self.gadgets, pop_sp) = 1
    THEN [raw(raw(self, pop_sp), IntV(next_base)) EXCEPT !.migrated = TRUE]
    ELSE IF Truthy(pop_bp) /\ Truthy(leave) /\ NumRegs(self.gadgets, pop_bp) = 1
    THEN [raw(raw(raw(self, pop_bp), IntV(next_base - 4)), leave)
          EXCEPT !.migrated = TRUE]
    ELSE [self EXCEPT !.ok = FALSE, !.error = "Cannot find the gadgets to migrate"]

\* ROP.migrate.  raw() raises only on a migrated chain, and then the first
\* raw() does, before anything is appended.
migrate(self, next_base, arch) ==
    MigrateWith(self, next_base,
                Or(getattr(self.gadgets, "rsp"), getattr(self.gadgets, "esp")),
                Or(getattr(self.gadgets, "rbp"), getattr(self.gadgets, "ebp")),
                getattr(self.gadgets, "leave"))

\* -------------------------------------------------------------- the state

VARIABLES
    arch,          \* the architecture of the ELF and of the context
    base,          \* ROP.base
    ord,           \* the iteration order of dicts and sets keyed by gadgets
    gadgets,       \* ROP.gadgets: {address: Gadget}
    solver,        \* gadget_graph, _top_sorted, _global_delete_gadget, once set
    chain,         \* ROP._chain
    migrated,      \* ROP.migrated
    last,          \* the last method called and how it ended
    pc,            \* "idle", or "pass2" while build() is in its second pass
    stack,         \* the DescriptiveStack of the build() in progress
    descriptions,  \* its descriptions dict
    stack1,        \* that stack as the first pass left it
    calls,         \* where the first pass put each Call's target and arguments
    i,             \* the index the second pass is at
    returned,      \* what the build() calls made since the chain last changed returned
    tgraph,        \* the graph given to __build_top_sort
    tresult,       \* what __build_top_sort returned for it
    inits,         \* how often init_classify_and_solver ran on the object
    request,       \* the arguments of the method called on its own
    result         \* what that method returned, or the object it works on

builderVars ==
    <<arch, base, gadgets, solver, chain, migrated, last, pc, stack,
      descriptions, stack1, calls, i, returned, inits>>

topVars == <<tgraph, tresult>>

methodVars == <<request, result>>

vars == <<arch, base, ord, gadgets, solver, chain, migrated, last, pc, stack,
          descriptions, stack1, calls, i, returned, tgraph, tresult, inits,
          request, result>>

\* ------------------------------------------------------------ the inputs

\* The gadget sets of the binaries the builder is created on.
GadgetSets ==
    { {},
      {101, 102, 105, 112},
      {101, 102, 103, 105},
      {101, 102, 103, 104, 105},
      {109},
      {109, 110, 106, 107},
      {108, 107, 110},
      {111, 109, 110},
      {101, 102, 113} }

Bases == {0, 16}

\* The iteration orders of the gadget-keyed dicts: the catalogue's addresses
\* ascending and descending.
AddressOrders ==
    LET n == Cardinality(DOMAIN Catalogue("i386"))
    IN {[k \in 1..n |-> 100 + k], [k \in 1..n |-> 100 + n + 1 - k]}

\* What raw() is called with.
RawValues ==
    {IntV(1), IntV(2), StrV(<<65, 66, 67, 68>>), StrV(<<65, 66, 67, 68, 69>>),
     CurrentStackPointer, AppendedArgument(<<IntV(3)>>)}

\* What call() is called with.
Resolvables == {StrV("funcname"), StrV("execve"), StrV("nosuch")}

ArgLists == {<<IntV(1), IntV(2)>>, <<IntV(1), IntV(2), NextGadgetAddress>>}

ABIs(a) ==
    {ABI(<<>>, TRUE), ABI(<<RegName[a].di>>, FALSE),
     ABI(<<RegName[a].di, RegName[a].si>>, TRUE)}

NextBases == {32}

\* ---------------------------------------------------------------- Init

NoSolver == [set |-> FALSE]

NoResult == [done |-> FALSE]

\* ROP.__init__: the gadgets of the binary, an empty chain, not migrated.
Construct(sets) ==
    /\ arch \in Arches
    /\ base \in Bases
    /\ ord \in AddressOrders
    /\ \E S \in sets : gadgets = [a \in S |-> Catalogue(arch)[a]]
    /\ solver = NoSolver
    /\ chain = <<>>
    /\ migrated = FALSE
    /\ last = [op |-> "init", ok |-> TRUE, error |-> ""]
    /\ pc = "idle"
    /\ stack = <<>>
    /\ descriptions = <<>>
    /\ stack1 = <<>>
    /\ calls = <<>>
    /\ i = 0
    /\ returned = <<>>
    /\ tgraph = <<>>
    /\ tresult = NoResult
    /\ inits = 0
    /\ request = <<>>
    /\ result = NoResult

Init == Construct(GadgetSets)

\* The fields of the ROP object a method works on.
Self ==
    [ok |-> TRUE, error |-> "", handled |-> TRUE,
     gadgets |-> gadgets, chain |-> chain, migrated |-> migrated]

\* The ROP object and the record of the call after method `op` ended as r.
Finish(op, r) ==
    /\ chain' = r.chain
    /\ migrated' = r.migrated
    /\ last' = [op |-> op, ok |-> r.ok, error |-> r.error]
    /\ returned' = IF r.chain = chain THEN returned ELSE <<>>
    /\ UNCHANGED <<arch, base, ord, gadgets, solver, pc, stack, descriptions,
                   stack1, calls, i, tgraph, tresult, inits, request, result>>

\* A method is called between builds; the chain is driven up to MaxChain
\* elements, and a migrated chain, which cannot grow, is called on at will.
CanCall == pc = "idle" /\ (migrated \/ Len(chain) < MaxChain)

\* rop.raw(value)
Raw ==
    /\ CanCall
    /\ \E value \in RawValues : Finish("raw", raw(Self, value))

\* rop.call(resolvable, arguments, abi)
CallOp ==
    /\ CanCall
    /\ \E resolvable \in Resolvables, arguments \in ArgLists, abi \in ABIs(arch) :
          Finish("call", call(Self, resolvable, arguments, abi, arch, ord))

\* rop.migrate(next_base)
Migrate ==
    /\ CanCall
    /\ \E next_base \in NextBases : Finish("migrate", migrate(Self, next_base, arch))

\* The state build() is in after its first pass ended as r.  An exception
\* ends the call; the stack built so far is dropped, what setRegisters
\* stored in the object stays.
FirstPassDone(r) ==
    /\ gadgets' = r.gadgets
    /\ solver' = r.solver
    /\ chain' = r.chain
    /\ last' = [op |-> "build", ok |-> r.ok, error |-> r.error]
    /\ pc' = IF r.ok THEN "pass2" ELSE "idle"
    /\ stack' = IF r.ok THEN r.stack ELSE <<>>
    /\ stack1' = IF r.ok THEN r.stack ELSE <<>>
    /\ descriptions' = IF r.ok THEN r.descriptions ELSE <<>>
    /\ calls' = IF r.ok THEN r.calls ELSE <<>>
    /\ returned' = IF r.ok THEN returned
                   ELSE Append(returned, [ok |-> FALSE, stack |-> <<>>])
    /\ i' = 0
    /\ inits' = IF inits + r.inits < MaxInits THEN inits + r.inits ELSE MaxInits

\* rop.build(): the first pass.
BuildPass1 ==
    /\ pc = "idle"
    /\ Len(returned) < MaxBuilds
    /\ FirstPassDone(Pass1([ok |-> TRUE, error |-> "", stack |-> <<>>,
                            address |-> DescriptiveStack(base),
                            descriptions |-> <<>>, gadgets |-> gadgets,
                            solver |-> solver, inits |-> 0, args |-> <<>>,
                            target |-> 0, first |-> 0, adjust |-> 0,
                            calls |-> <<>>, chain |-> chain], 1, arch, ord))
    /\ UNCHANGED <<arch, base, ord, migrated, tgraph, tresult, request, result>>

\* build(): the second pass at slot i.
BuildPass2 ==
    /\ pc = "pass2"
    /\ i < Len(stack)
    /\ stack' = Pass2Slot(stack, DescriptiveStack(base), i, arch)
    /\ descriptions' =
          IF Pass2Describe(stack, i) = "" THEN descriptions
          ELSE Put(descriptions, SlotAddress(DescriptiveStack(base), i, arch),
                   Pass2Describe(stack, i))
    /\ i' = i + 1
    /\ UNCHANGED <<arch, base, ord, gadgets, solver, chain, migrated, last, pc,
                   stack1, calls, returned, tgraph, tresult, inits, request,
                   result>>

\* build(): return stack.
BuildReturn ==
    /\ pc = "pass2"
    /\ i = Len(stack)
    /\ returned' = Append(returned, [ok |-> TRUE, stack |-> stack])
    /\ pc' = "idle"
    /\ stack' = <<>>
    /\ stack1' = <<>>
    /\ calls' = <<>>
    /\ descriptions' = <<>>
    /\ i' = 0
    /\ UNCHANGED <<arch, base, ord, gadgets, solver, chain, migrated, last,
                   tgraph, tresult, inits, request, result>>

Next == Raw \/ CallOp \/ Migrate \/ BuildPass1 \/ BuildPass2 \/ BuildReturn

Spec == Init /\ [][Next]_vars

\* ---------------------------------------------- the topological sort alone

Nodes == 1..NumNodes

\* The graphs build_graph can give: every node a key, no edge from a node to
\* itself.
Graphs == {g \in [Nodes -> SUBSET Nodes] : \A n \in Nodes : n \notin g[n]}

InitTop ==
    /\ tgraph \in Graphs
    /\ ord \in Perms(Nodes)
    /\ tresult = NoResult
    /\ arch = "i386"
    /\ base = 0
    /\ gadgets = <<>>
    /\ solver = NoSolver
    /\ chain = <<>>
    /\ migrated = FALSE
    /\ last = [op |-> "init", ok |-> TRUE, error |-> ""]
    /\ pc = "idle"
    /\ stack = <<>>
    /\ descriptions = <<>>
    /\ stack1 = <<>>
    /\ calls = <<>>
    /\ i = 0
    /\ returned = <<>>
    /\ inits = 0
    /\ request = <<>>
    /\ result = NoResult

\* self._top_sorted = self.__build_top_sort(ggh)
TopSort ==
    /\ ~tresult.done
    /\ LET r == build_top_sort(tgraph, <<>>, ord)
       IN tresult' = [done |-> TRUE, isNone |-> r.isNone, value |-> r.value,
                      deleted |-> r.deleted, calls |-> r.calls]
    /\ UNCHANGED <<tgraph, ord>>
    /\ UNCHANGED builderVars
    /\ UNCHANGED methodVars

NextTop == TopSort

SpecTop == InitTop /\ [][NextTop]_vars

\* ------------------------------------------------- the claims: top sort

\* The nodes of the graph the sort was run on.
GraphNodes == IndegreeKeys(tgraph)

\* The edge a -> b was recorded in _global_delete_gadget.
Deleted(a, b) == a \in DOMAIN tresult.deleted /\ b \in tresult.deleted[a]

\* C1: for every graph, cyclic ones included, the sequence __build_top_sort
\* returns holds every node of the graph exactly once.
C1_EveryNodeExactlyOnce ==
    tresult.done =>
        /\ ~tresult.isNone
        /\ Len(tresult.value) = Cardinality(GraphNodes)
        /\ Range(tresult.value) = GraphNodes

\* C1, the docstring's own example {eax: [ebx], ebx: [eax], edx: [eax]} with
\* eax = 1, ebx = 2, edx = 3: the sort returns None, not [edx, eax, ebx].
C1_DocstringExampleIsNone ==
    /\ tresult.done
    /\ tgraph = [n \in Nodes |-> IF n = 1 THEN {2} ELSE {1}]
    /\ tresult.isNone

\* C2: every edge a -> b of the graph that the sort did not delete has a
\* before b in the returned order.
C2_SurvivingEdgesInOrder ==
    tresult.done =>
        \A a \in DOMAIN tgraph : \A b \in tgraph[a] :
            ~Deleted(a, b) =>
                /\ ~tresult.isNone
                /\ a \in Range(tresult.value)
                /\ b \in Range(tresult.value)
                /\ Index(tresult.value, a) < Index(tresult.value, b)

\* C2, two cycles through one node: the sort deletes one edge into it and
\* returns a list, and an edge it did not delete has neither end in the list.
C2_SurvivingEdgeEndsMissing ==
    /\ tresult.done
    /\ ~tresult.isNone
    /\ tresult.deleted # <<>>
    /\ \E a \in DOMAIN tgraph : \E b \in tgraph[a] :
          /\ ~Deleted(a, b)
          /\ a \notin Range(tresult.value)
          /\ b \notin Range(tresult.value)

\* ------------------------------------------------ the claims: the builder

\* The binary has a gadget with exactly these instructions.
HasGadget(insns) == \E a \in DOMAIN gadgets : gadgets[a].insns = insns

\* C3: once the chain is sealed, every later raw(), call() or migrate()
\* reports an error and leaves the chain element list as it was, and the
\* sealed flag never goes back to False.
C3_SealedChainRejects ==
    [][migrated =>
          /\ migrated'
          /\ chain' = chain
          /\ (Raw \/ CallOp \/ Migrate) => ~last'.ok]_vars

\* C3, a chain sealed by a syscall through sigreturn, and a raw() after it
\* that was turned down.
C3_RawAfterSigreturnRejected ==
    /\ migrated
    /\ Len(chain) = 2
    /\ chain[2].t = "SigreturnFrame"
    /\ last = [op |-> "raw", ok |-> FALSE, error |-> "Cannot append to a migrated chain"]

\* C4: migrate() on a binary with no `pop sp; ret` gadget and without a
\* `pop bp; ret` gadget or without a `leave` gadget reports an error, appends
\* nothing and leaves the chain unsealed.
C4_NoPivotMigrateFails ==
    [][(/\ Migrate
        /\ ~migrated
        /\ ~HasGadget(<<"pop sp", "ret">>)
        /\ ~HasGadget(<<"pop bp", "ret">>) \/ ~HasGadget(<<"leave", "ret">>))
          => (~last'.ok /\ chain' = chain /\ ~migrated')]_vars

\* C4, a binary whose only gadget is `pop bp; ret`: migrate() ended without an
\* error, sealed the chain, and the last element it appended is the call
\* shorthand __getattr__ gives for the name leave.
C4_MigratedWithoutLeave ==
    /\ DOMAIN gadgets = {109}
    /\ last = [op |-> "migrate", ok |-> TRUE, error |-> ""]
    /\ migrated
    /\ chain = <<GadgetV(109), IntV(28), CallShorthand("leave")>>

C6_RawIntegersRoundTrip ==
    \A n \in DOMAIN returned :
        (\A k \in DOMAIN chain : chain[k].t = "int") =>
            /\ returned[n].ok
            /\ returned[n].stack = chain

\* C6, two different integers built at a base that is not 0.
C6_TwoIntegersBuilt ==
    /\ base = 16
    /\ chain = <<IntV(1), IntV(2)>>
    /\ Len(returned) = 1
    /\ returned[1].ok

\* C7: in pass 2 every slot of the stack pass 1 left is at its index: the
\* slots from i on are untouched, the slots before i are rewritten in place,
\* with base + index * word size as the address of a self-reference and of a
\* description, and the stack only grows at its tail.
C7_Pass2KeepsIndices ==
    pc = "pass2" =>
        /\ Len(stack) >= Len(stack1)
        /\ \A k \in DOMAIN stack1 :
              LET slot_address == base + (k - 1) * context_bytes(arch)
              IN /\ k > i => stack[k] = stack1[k]
                 /\ k <= i =>
                      CASE stack1[k].t = "CurrentStackPointer" ->
                             stack[k] = IntV(slot_address)
                        [] stack1[k].t = "Padding" ->
                             /\ stack[k].t = "str"
                             /\ Len(stack[k].str) = context_bytes(arch)
                             /\ slot_address \in DOMAIN descriptions
                             /\ descriptions[slot_address] = "<pad>"
                        [] stack1[k].t = "Gadget" ->
                             /\ stack[k] = IntV(stack1[k].address)
                             /\ slot_address \in DOMAIN descriptions
                             /\ descriptions[slot_address] = "insns"
                        [] stack1[k].t = "AppendedArgument" ->
                             stack[k].t = "int"
                        [] OTHER -> stack[k] = stack1[k]

\* C7, pass 2 past a self-reference that is not the first slot, and past an
\* argument appended at the tail, at a base that is not 0.
C7_SelfReferenceResolved ==
    /\ pc = "pass2"
    /\ base = 16
    /\ chain = <<AppendedArgument(<<IntV(3)>>), CurrentStackPointer>>
    /\ i = 3
    /\ Len(stack) = 3

\* C8: pass 1 extends every byte blob to a multiple of the word size, and
\* every chunk it puts on the stack is exactly one word long.
C8_BlobChunksAreWords ==
    pc = "pass2" =>
        \A k \in DOMAIN stack1 :
            stack1[k].t = "str" => Len(stack1[k].str) = context_bytes(arch)

\* C8, a blob of 5 bytes on a 4-byte word: one byte of filler is added, and
\* the second chunk has 2 bytes.
C8_ShortChunk ==
    /\ pc = "pass2"
    /\ arch = "i386"
    /\ chain = <<StrV(<<65, 66, 67, 68, 69>>)>>
    /\ Len(stack1) = 2
    /\ Len(stack1[2].str) = 2

\* The stack arguments of a Call: its args after the register arguments.
StackArgs(c) == SubSeq(c.args, Len(c.abi.register_arguments) + 1, Len(c.args))

\* The Call of chain element idx resumes and another element follows it.
Resumes(idx) == chain[idx].abi.returns /\ idx < Len(chain)

\* C9 as stated: a Call that does not resume, or that is the last element,
\* has exactly one padding word between its target and its first stack
\* argument.
C9_OnePaddingBeforeArguments ==
    pc = "pass2" =>
        \A n \in DOMAIN calls :
            (~chain[calls[n].idx].abi.returns \/ calls[n].idx = Len(chain)) =>
                /\ calls[n].first = calls[n].target + 2
                /\ stack1[calls[n].target + 2] = Padding

\* C9 amended: the target is where pass 1 says; a Call that resumes and is
\* the last element has exactly one padding word between the target and the
\* first stack argument; a Call that does not resume has none, its stack
\* arguments follow the target at once; the stack arguments follow in order.
C9_PaddingOnlyWhenResuming ==
    pc = "pass2" =>
        \A n \in DOMAIN calls :
            LET c == chain[calls[n].idx]
                target == calls[n].target
                first == calls[n].first
            IN /\ stack1[target + 1] = c.target
               /\ (c.abi.returns /\ calls[n].idx = Len(chain)) =>
                     /\ first = target + 2
                     /\ stack1[target + 2] = Padding
               /\ ~c.abi.returns => first = target + 1
               /\ \A j \in DOMAIN StackArgs(c) :
                     IF StackArgs(c)[j].t = "NextGadgetAddress"
                     THEN stack1[first + j].t = "int"
                     ELSE stack1[first + j] = StackArgs(c)[j]

\* C9, a Call that does not resume and has stack arguments, after pass 1.
C9_NonResumingCallBuilt ==
    /\ pc = "pass2"
    /\ \E n \in DOMAIN calls :
          /\ ~chain[calls[n].idx].abi.returns
          /\ StackArgs(chain[calls[n].idx]) # <<>>
          /\ stack1[calls[n].target + 2] = StackArgs(chain[calls[n].idx])[1]

\* C10 as stated: the gadget after the target of a Call that resumes and is
\* followed by another element moves the stack by exactly
\* (1 + stack arguments) * word size, and without such a gadget build() fails.
C10_AdjustMovesExactly ==
    (pc = "pass2" \/ (last.op = "build" /\ last.ok)) =>
        \A idx \in DOMAIN chain :
            (chain[idx].t = "Call" /\ Resumes(idx)) =>
                \E a \in DOMAIN gadgets :
                    /\ gadgets[a].move = FixBytes(StackArgs(chain[idx]), arch)
                    /\ pc = "pass2" =>
                          \E n \in DOMAIN calls :
                              calls[n].idx = idx /\ calls[n].adjust = a

\* C10 amended: the gadget moves the stack by at least that many bytes, and no
\* gadget that does so moves it by less; it is the slot after the target; the
\* stack arguments are padded by the words the gadget moves further; and when
\* no gadget moves the stack that far build() fails.
C10_AdjustMovesAtLeast ==
    (pc = "pass2" \/ (last.op = "build" /\ last.ok)) =>
        \A idx \in DOMAIN chain :
            (chain[idx].t = "Call" /\ Resumes(idx)) =>
                LET fix_bytes == FixBytes(StackArgs(chain[idx]), arch)
                    w == context_bytes(arch)
                IN /\ \E a \in DOMAIN gadgets : gadgets[a].move >= fix_bytes
                   /\ pc = "pass2" =>
                        \E n \in DOMAIN calls :
                            /\ calls[n].idx = idx
                            /\ calls[n].adjust \in DOMAIN gadgets
                            /\ stack1[calls[n].target + 2] = IntV(calls[n].adjust)
                            /\ calls[n].first = calls[n].target + 2
                            /\ gadgets[calls[n].adjust].move >= fix_bytes
                            /\ \A a \in DOMAIN gadgets :
                                  gadgets[a].move >= fix_bytes =>
                                      gadgets[a].move >= gadgets[calls[n].adjust].move
                            /\ \A j \in 1..RangeLen(fix_bytes,
                                                    gadgets[calls[n].adjust].move, w) :
                                  stack1[calls[n].first + Len(StackArgs(chain[idx])) + j]
                                      = Padding

\* C10, a Call that resumes, followed by another element, whose adjustment
\* gadget moves the stack further than the arguments need.
C10_AdjustMovesFurther ==
    /\ pc = "pass2"
    /\ \E n \in DOMAIN calls :
          /\ Resumes(calls[n].idx)
          /\ calls[n].adjust \in DOMAIN gadgets
          /\ gadgets[calls[n].adjust].move
                > FixBytes(StackArgs(chain[calls[n].idx]), arch)

\* ------------------------------------------------ rop.search() on its own

\* The move= arguments search() is called with: none, the moves of the
\* catalogue's gadgets on both architectures, and one no pop reaches.
Moves == {0, 8, 12, 20, 24, 25}

\* The regs= arguments search() is called with.
RegLists(a) ==
    LET R == RegName[a]
    IN {{}, {R.di}, {R.si}, {R.di, R.si}, {R.bp}, {R.sp}, {R.sp, R.bp}, {R.ax}}

Orders == {"size", "regs"}

\* rop.search(move, regs, order) on a freshly constructed object.
Search ==
    /\ \E move \in Moves, regs \in RegLists(arch), order \in Orders :
          /\ request' = [op |-> "search", move |-> move, regs |-> regs,
                         order |-> order]
          /\ result' = [done |-> TRUE, value |-> search(gadgets, move, regs, order)]
    /\ UNCHANGED builderVars
    /\ UNCHANGED topVars
    /\ UNCHANGED ord

NextSearch == Search

SpecSearch == Init /\ [][NextSearch]_vars

\* --------------------------------------------------- the claims: search

\* The gadgets that advance the stack by at least the requested move and set
\* every requested register.
Matching ==
    {a \in DOMAIN gadgets :
        /\ gadgets[a].move >= request.move
        /\ \A r \in request.regs : r \in DOMAIN gadgets[a].regs}

\* (move, #regs, address) for 'size' and (#regs, move, address) for 'regs'.
RequestedKey(a) ==
    LET nregs == Cardinality(DOMAIN gadgets[a].regs)
    IN IF request.order = "size"
       THEN <<gadgets[a].move, nregs, a>>
       ELSE <<nregs, gadgets[a].move, a>>

\* C11: search(move, regs, order) returns None exactly when no gadget has
\* move >= N and sets every register of regs; otherwise it returns one of
\* those gadgets, and no other of them has a smaller key in the lexicographic
\* order of (move, #regs, address) for 'size', (#regs, move, address) for 'regs'.
C11_SearchReturnsMinimalMatch ==
    result.done =>
        /\ (result.value = NoneV) <=> (Matching = {})
        /\ Matching # {} =>
              /\ result.value.t = "Gadget"
              /\ result.value.address \in Matching
              /\ \A b \in Matching :
                    ~LexLess(RequestedKey(b), RequestedKey(result.value.address))

\* C11, a search by 'regs' among several matches whose smallest by 'size' is
\* another gadget than the one returned.
C11_RegsOrderPicksFewestRegisters ==
    /\ result.done
    /\ request.order = "regs"
    /\ request.move = 0
    /\ request.regs = {}
    /\ {101, 105, 112} \subseteq Matching
    /\ result.value = GadgetV(105)

\* C12: search() returns a gadget whose move is the leave sentinel only when
\* the requested registers name the stack pointer.
C12_LeaveOnlyForStackPointer ==
    (result.done /\ result.value.t = "Gadget") =>
        (gadgets[result.value.address].move >= LeaveMove
            => RegName[arch].sp \in request.regs)

\* C12, search(move=25) with no registers on a binary whose only gadget that
\* far-reaching is leave; ret: the leave gadget is returned.
C12_LeaveReturnedAsAdjustment ==
    /\ result.done
    /\ request.regs = {}
    /\ request.move = 25
    /\ result.value = GadgetV(110)
    /\ gadgets[110].move = LeaveMove

\* ------------------------------------------- rop.setRegisters() on its own

\* The binaries setRegisters() is called on: two registers reached through
\* one gadget, through a chain of two gadgets, through gadgets of their own,
\* through a cycle of moves, and none.
RegsGadgetSets ==
    { {},
      {101, 104},
      {102, 103, 105},
      {105, 112},
      {101, 102, 105, 112},
      {101, 102, 106},
      {101, 102, 103, 104, 105} }

\* The values dicts setRegisters() is called with.
ValueDicts(a) ==
    LET R == RegName[a]
    IN { [r \in {} |-> 0],
         [r \in {R.di} |-> 5],
         [r \in {R.si} |-> 6],
         [r \in {R.ax} |-> 3],
         [r \in {R.di, R.si} |-> 5],
         [r \in {R.di, R.si} |-> IF r = R.di THEN 5 ELSE 6],
         [r \in {R.di, R.si, R.ax} |-> IF r = R.ax THEN 3 ELSE 6] }

InitRegs == Construct(RegsGadgetSets)

\* What setRegisters leaves behind when it returned r for values.
SetRegistersDone(values, r) ==
    /\ request' = [op |-> "setRegisters", values |-> values]
    /\ result' = IF r.ok THEN [done |-> TRUE, ok |-> TRUE, value |-> r.value]
                 ELSE [done |-> TRUE, ok |-> FALSE, error |-> r.error]
    /\ gadgets' = r.solver.gadgets
    /\ solver' = r.solver
    /\ inits' = IF inits < MaxInits THEN inits + 1 ELSE MaxInits

\* rop.setRegisters(values)
SetRegs ==
    /\ \E values \in ValueDicts(arch) :
          SetRegistersDone(values, setRegisters(gadgets, values, arch, ord))
    /\ UNCHANGED <<arch, base, ord, chain, migrated, last, pc, stack,
                   descriptions, stack1, calls, i, returned, tgraph, tresult>>

NextRegs == SetRegs

SpecRegs == InitRegs /\ [][NextRegs]_vars

\* ----------------------------------------------- the claims: setRegisters

\* The registers the call asked for.
Requested == DOMAIN request.values

\* Whether search_path("sp", [reg]) finds no verified path on the object.
NoPath(reg) == search_path(solver, "sp", {reg}, align(arch), ord).isNone

\* The address of the last gadget of the best path found for reg.
Terminal(reg) ==
    LET best == search_path(solver, "sp", {reg}, align(arch), ord).value[1]
    IN best[Len(best)]

\* The groups holding reg in what setRegisters returned.
GroupsOf(reg) == {n \in DOMAIN result.value : reg \in Range(result.value[n].regs)}

\* C13: in what setRegisters(values) returns, every requested register appears
\* in exactly one group key and no other register does; two registers are in
\* the same group exactly when the best paths found for them end in a gadget
\* with the same address; no terminal gadget address belongs to two groups.
C13_GroupsPartitionByTerminalGadget ==
    (result.done /\ result.ok) =>
        /\ \A reg \in Requested : Cardinality(GroupsOf(reg)) = 1
        /\ \A n \in DOMAIN result.value :
              /\ Range(result.value[n].regs) \subseteq Requested
              /\ Cardinality(Range(result.value[n].regs)) = Len(result.value[n].regs)
        /\ \A r1, r2 \in Requested :
              (GroupsOf(r1) = GroupsOf(r2)) <=> (Terminal(r1) = Terminal(r2))
        /\ \A n, m \in DOMAIN result.value :
              n # m => \A r1 \in Range(result.value[n].regs),
                          r2 \in Range(result.value[m].regs) :
                          Terminal(r1) # Terminal(r2)

\* C13, a second call on the same object whose two registers are set by one
\* gadget and come back as one group.
C13_TwoRegistersOneGroup ==
    /\ result.done
    /\ result.ok
    /\ Len(result.value) = 1
    /\ Len(result.value[1].regs) = 2
    /\ inits = 2

\* C14: whenever a path exists for each requested register, setRegisters
\* returns the groups in reverse topological order of their terminal gadgets,
\* the group whose terminal gadget is later in the order first.
C14_GroupsInReverseTopologicalOrder ==
    (result.done /\ \A reg \in Requested : ~NoPath(reg)) =>
        /\ result.ok
        /\ \A n, m \in DOMAIN result.value :
              n < m =>
                  Index(solver.top_sorted.value, Terminal(result.value[n].regs[1]))
                    > Index(solver.top_sorted.value, Terminal(result.value[m].regs[1]))

\* C14, a binary whose moves between two registers form a cycle: each
\* requested register has a path, and setRegisters raises a TypeError.
C14_CyclicGraphRaises ==
    /\ result.done
    /\ Requested # {}
    /\ \A reg \in Requested : ~NoPath(reg)
    /\ {103, 104} \subseteq DOMAIN gadgets
    /\ solver.top_sorted.isNone
    /\ ~result.ok
    /\ result.error = "TypeError"

\* C15: when a requested register has no verified path, setRegisters fails
\* with an error that names such a register, and returns nothing, no mapping
\* for the other registers either.
C15_MissingPathIsAnError ==
    (result.done /\ \E reg \in Requested : NoPath(reg)) =>
        /\ ~result.ok
        /\ "value" \notin DOMAIN result
        /\ \E reg \in Requested :
              /\ NoPath(reg)
              /\ result.error = "Gadget to reg " \o reg \o " not found!"

\* C15, three registers asked for, two of them with a path: the call failed
\* naming the third.
C15_ThirdRegisterNamed ==
    /\ result.done
    /\ ~result.ok
    /\ Cardinality(Requested) = 3
    /\ Cardinality({reg \in Requested : NoPath(reg)}) = 1
    /\ result.error = "Gadget to reg " \o RegName[arch].ax \o " not found!"

\* C18: gadget classification, graph construction and the topological sort
\* run at most once on one builder object.
C18_ClassifiedAtMostOnce == inits <= 1

\* C18, a second setRegisters call on the same object that classified the
\* gadgets and built the graph and the order again.
C18_SecondCallClassifiesAgain ==
    /\ inits = 2
    /\ result.done
    /\ request.op = "setRegisters"
    /\ solver = init_classify_and_solver(gadgets, ord)

\* ---------------------------------------------- SigreturnFrame on its own

\* No ROP object has been built: the state of the variables that belong to it.
NoBuilder ==
    /\ base = 0
    /\ gadgets = <<>>
    /\ solver = NoSolver
    /\ chain = <<>>
    /\ migrated = FALSE
    /\ last = [op |-> "init", ok |-> TRUE, error |-> ""]
    /\ pc = "idle"
    /\ stack = <<>>
    /\ descriptions = <<>>
    /\ stack1 = <<>>
    /\ calls = <<>>
    /\ i = 0
    /\ returned = <<>>
    /\ inits = 0

FrameArches == {"i386", "amd64", "arm"}

\* The keys assigned to: the first register, the stack pointer, the
\* instruction pointer, and a name that is no register of any architecture.
FrameItems(a) == {registers[a][1], stack_pointers[a], instruction_pointers[a], "nosuch"}

FrameValues == {IntV(0), IntV(1), IntV(8), IntV(258)}

\* SigreturnFrame(arch=arch)
InitFrame ==
    /\ arch \in FrameArches
    /\ result = SigreturnFrame(arch)
    /\ request = [op |-> "init", n |-> 0]
    /\ ord = <<>>
    /\ tgraph = <<>>
    /\ tresult = NoResult
    /\ NoBuilder

\* What frame[item] = value leaves behind when __setitem__ ended as r.
SetItemDone(item, value, r) ==
    /\ request' = [op |-> "setitem", item |-> item, value |-> value, ok |-> r.ok,
                   error |-> r.error, n |-> request.n + 1]
    /\ result' = r.frame

\* frame[item] = value; frame.<item> = value and the sp, pc properties end in
\* the same __setitem__.
SetItem ==
    /\ request.n < MaxSets
    /\ \E item \in FrameItems(arch), value \in FrameValues :
          SetItemDone(item, value, frame_setitem(result, item, value))
    /\ UNCHANGED builderVars
    /\ UNCHANGED topVars
    /\ UNCHANGED ord

NextFrame == SetItem

SpecFrame == InitFrame /\ [][NextFrame]_vars

\* --------------------------------------------- the claims: SigreturnFrame

\* C16: a SigreturnFrame serializes to (number of registers of the
\* architecture) * word size bytes, 80 on i386 and 248 on amd64, whatever
\* was assigned; an assignment to one register of the architecture changes
\* the value of that register only, and register k of the architecture's
\* list stays at word k of the serialization.
C16_FrameLengthFixedSetIsLocal ==
    [][/\ Len(frame_str(result)) = Len(registers[arch]) * context_bytes(arch)
       /\ Len(frame_str(result')) = Len(registers[arch]) * context_bytes(arch)
       /\ arch = "i386" => Len(frame_str(result')) = 80
       /\ arch = "amd64" => Len(frame_str(result')) = 248
       /\ request'.ok =>
             \A k \in 1..Len(registers[arch]) :
                /\ result'.regs[registers[arch][k]]
                     = IF registers[arch][k] = request'.item THEN request'.value
                       ELSE result.regs[registers[arch][k]]
                /\ \A j \in 1..context_bytes(arch) :
                      frame_str(result')[(k - 1) * context_bytes(arch) + j]
                        = ByteOf(result'.regs[registers[arch][k]].int, j - 1)
      ]_vars

\* C16, an amd64 frame after two assignments, the last one 258 to a register
\* of the architecture.
C16_SecondAssignmentSerialized ==
    /\ arch = "amd64"
    /\ request.n = 2
    /\ request.ok
    /\ request.value = IntV(258)
    /\ result.regs[request.item] = IntV(258)
    /\ Len(frame_str(result)) = 248

\* C17: an assignment to a name that is no register of the architecture, and
\* on arm an assignment to sp of a value that is no multiple of 8, reports an
\* error and leaves the frame as it was: every register at its previous
\* value, no key added.
C17_RejectedAssignmentKeepsFrame ==
    [][(\/ request'.item \notin Range(registers[arch])
        \/ arch = "arm" /\ request'.item = "sp" /\ request'.value.int % 8 # 0)
          => /\ ~request'.ok
             /\ request'.error # ""
             /\ result' = result
             /\ DOMAIN result'.regs = Range(registers[arch])
      ]_vars

\* C17, an arm frame whose sp was set to 8 and then refused 258.
C17_MisalignedSpRefused ==
    /\ arch = "arm"
    /\ request.n = 2
    /\ request.item = "sp"
    /\ request.value = IntV(258)
    /\ ~request.ok
    /\ request.error = "ARM SP should be 8-bit aligned"
    /\ result.regs["sp"] = IntV(8)

\* ------------------------------------------ the claims: failing operations

\* C19: every operation that fails (raw() or call() on a sealed chain, call()
\* of a name that resolves to nothing, a syscall call on a binary without a
\* syscall gadget, migrate() without pivot gadgets, a failing build()) leaves
\* the chain element list and the sealed flag as they were before it.
C19_FailedOperationKeepsChain ==
    [][~last'.ok => (chain' = chain /\ migrated' = migrated)]_vars

\* C19, a syscall call that found no syscall gadget, on a chain that holds an
\* element and is not sealed.
C19_SyscallWithoutGadgetFailed ==
    /\ last = [op |-> "call", ok |-> FALSE, error |-> "Could not find any instructions"]
    /\ Len(chain) = 1
    /\ ~migrated

\* ------------------------------ __build_top_sort, one invocation at a time

\* The call init_classify_and_solver makes: the whole graph, nothing deleted.
InitSort ==
    /\ tgraph \in Graphs
    /\ ord \in Perms(Nodes)
    /\ tresult = NoResult
    /\ arch = "i386"
    /\ NoBuilder
    /\ request = [op |-> "__build_top_sort", pending |-> TRUE, graph |-> tgraph,
                  depth |-> 0]
    /\ result = [done |-> FALSE, top_sorted |-> <<>>, deleted |-> <<>>]

\* The invocation returns: with the empty graph its top_sorted, else None,
\* which every caller up the stack turns into [] and adds to its own
\* top_sorted.
SortReturns(st) ==
    /\ request' = [request EXCEPT !.pending = FALSE]
    /\ result' = [done |-> TRUE,
                  isNone |-> Cardinality(DOMAIN st.graph) # 0 /\ request.depth = 0,
                  top_sorted |-> IF Cardinality(DOMAIN st.graph) = 0
                                 THEN result.top_sorted \o st.top_sorted
                                 ELSE result.top_sorted,
                  deleted |-> result.deleted]

\* The invocation deletes the edge e and calls itself on the graph.
SortRecurses(st, e) ==
    /\ request' = [request EXCEPT !.graph = RemoveEdge(st.graph, e[1], e[2]),
                                  !.depth = @ + 1]
    /\ result' = [done |-> FALSE,
                  top_sorted |-> result.top_sorted \o st.top_sorted,
                  deleted |-> RecordDeleted(result.deleted, e[1], e[2])]

\* What the invocation does after its while loop ended in st.
AfterTopLoop(st) ==
    IF Cardinality(DOMAIN st.graph) = 0 \/ PickEdge(st.graph, st.indegree, ord) = <<>>
    THEN SortReturns(st)
    ELSE SortRecurses(st, PickEdge(st.graph, st.indegree, ord))

\* One invocation of __build_top_sort(graph), up to its return or to the
\* call it makes on the reduced graph.
Invoke ==
    /\ request.pending
    /\ AfterTopLoop(TopLoop(request.graph, InitIndegree(request.graph),
                            InitIndegreeZero(InitIndegree(request.graph), ord),
                            <<>>, ord))
    /\ UNCHANGED builderVars
    /\ UNCHANGED topVars
    /\ UNCHANGED ord

NextSort == Invoke

SpecSort == InitSort /\ [][NextSort]_vars

\* ----------------------------------------- the claims: depth of the sort

\* C20: every recursive call of the sort is made on a graph with strictly
\* fewer edges and no node more than its caller's graph, each invocation
\* either returns or calls once, one level deeper, and the depth never
\* exceeds the number of edges of the graph the sort was started on; so the
\* sort ends after at most that many calls.
C20_RecursionOnSmallerGraph ==
    [][/\ request.pending
       /\ request'.pending =>
             /\ Cardinality(Edges(request'.graph)) < Cardinality(Edges(request.graph))
             /\ IndegreeKeys(request'.graph) \subseteq IndegreeKeys(request.graph)
             /\ request'.depth = request.depth + 1
             /\ request'.depth <= Cardinality(Edges(tgraph))
       /\ ~request'.pending => result'.done
      ]_vars

\* C20, a sort that returned from two levels of recursion.
C20_ReturnedFromSecondLevel ==
    /\ ~request.pending
    /\ result.done
    /\ request.depth = 2

\* ------------------------------------- the claims: the edges the sort deletes

\* The graph as the invocation's while loop leaves it, which is the graph the
\* cycle-breaking step works on.
GraphAtDeletion ==
    TopLoop(request.graph, InitIndegree(request.graph),
            InitIndegreeZero(InitIndegree(request.graph), ord), <<>>, ord).graph

\* The nodes reached from the nodes of S along at most n edges of graph.
RECURSIVE ReachedWithin(_, _, _)
ReachedWithin(graph, S, n) ==
    IF n = 0 THEN S
    ELSE ReachedWithin(graph,
                       S \cup UNION {graph[x] : x \in S \cap DOMAIN graph}, n - 1)

\* The edge k -> h lies on a cycle of graph: k is reached from h.
OnCycle(graph, k, h) ==
    k \in ReachedWithin(graph, {h}, Cardinality(IndegreeKeys(graph)))

\* The edges recorded in a _global_delete_gadget dict.
DeletedEdges(deleted) == UNION {{<<k, h>> : h \in deleted[k]} : k \in DOMAIN deleted}

\* C21: every edge the sort deletes and records lies on a cycle of the graph
\* as it stood when the edge was deleted.
C21_DeletedEdgeOnCycle ==
    [][\A e \in DeletedEdges(result'.deleted) \ DeletedEdges(result.deleted) :
          OnCycle(GraphAtDeletion, e[1], e[2])]_vars

\* C21, a sort that ended having deleted an edge into a node from which
\* nothing leads back, in the graph the sort was started on.
C21_DeletedEdgeOnNoCycle ==
    /\ result.done
    /\ \E e \in DeletedEdges(result.deleted) :
          /\ e[2] \in tgraph[e[1]]
          /\ ~OnCycle(tgraph, e[1], e[2])

\* -------------------------------------------- rop.search_path() on its own

\* The registers search_path is asked to reach.
PathRegs(a) ==
    LET R == RegName[a]
    IN {{R.di}, {R.si}, {R.di, R.si}, {R.ax}}

\* The source registers search_path starts from: the stack pointer as
\* setRegisters passes it, and a register no pop reads.
PathSrcs(a) == {"sp", RegName[a].si}

\* self.init_classify_and_solver(), which gives the object its gadget_graph
\* and its verifier.
Classify ==
    /\ inits < MaxInits
    /\ solver' = init_classify_and_solver(gadgets, ord)
    /\ gadgets' = init_classify_and_solver(gadgets, ord).gadgets
    /\ inits' = inits + 1
    /\ UNCHANGED <<arch, base, ord, chain, migrated, last, pc, stack,
                   descriptions, stack1, calls, i, returned, tgraph, tresult,
                   request, result>>

\* What search_path(src, regs) leaves behind when it returned r.
SearchPathDone(src, regs, r) ==
    /\ request' = [op |-> "search_path", src |-> src, regs |-> regs]
    /\ result' = [done |-> TRUE, isNone |-> r.isNone, value |-> r.value]

\* rop.search_path(src, regs) on an object that has its graph.
SearchPath ==
    /\ inits > 0
    /\ \E src \in PathSrcs(arch), regs \in PathRegs(arch) :
          SearchPathDone(src, regs, search_path(solver, src, regs, align(arch), ord))
    /\ UNCHANGED builderVars
    /\ UNCHANGED topVars
    /\ UNCHANGED ord

NextPath == Classify \/ SearchPath

SpecPath == InitRegs /\ [][NextPath]_vars

\* ------------------------------------------------ the claims: search_path

\* Whether the sequence p of gadget addresses is a simple path of the
\* object's dependency graph from a gadget with a source that references
\* request.src to a gadget that writes every register of request.regs.
IsSimplePath(p) ==
    /\ Len(p) >= 1
    /\ \A j \in DOMAIN p : p[j] \in DOMAIN gadgets
    /\ \E d \in DOMAIN gadgets[p[1]].regs :
          SubstringOf(request.src, gadgets[p[1]].regs[d].reg)
    /\ \A reg \in request.regs : reg \in DOMAIN gadgets[p[Len(p)]].regs
    /\ Cardinality({p[j] : j \in DOMAIN p}) = Len(p)
    /\ Len(p) <= Cardinality(IndegreeKeys(solver.gadget_graph))
    /\ \A j \in 1..(Len(p) - 1) : p[j + 1] \in solver.gadget_graph[p[j]]

\* Whether the verifier accepts the path for some value of the registers.
Survives(p) ==
    ~verify_path([j \in DOMAIN p |-> gadgets[p[j]]],
                 [reg \in request.regs |-> Probe], align(arch)).isNone

\* Every sequence of the object's gadget addresses no longer than the graph
\* has nodes.
AddressSequences ==
    UNION {[1..n -> DOMAIN gadgets] : n \in 1..Cardinality(DOMAIN gadgets)}

\* C22: search_path returns None exactly when no simple path from the start
\* set to the end set survives verification, and never an empty list;
\* otherwise every path of the list starts at a gadget of the start set, ends
\* at a gadget that writes every requested register, visits no gadget twice,
\* is no longer than the graph has nodes, follows edges of the dependency
\* graph, survived verification, and the list is in non-decreasing order of
\* the paths' textual length.
C22_PathsSimpleSortedOrNone ==
    result.done =>
        /\ result.isNone <=> ~\E p \in AddressSequences : IsSimplePath(p) /\ Survives(p)
        /\ ~result.isNone =>
              /\ Len(result.value) >= 1
              /\ \A n \in DOMAIN result.value :
                    /\ IsSimplePath(result.value[n])
                    /\ Survives(result.value[n])
              /\ \A n, m \in DOMAIN result.value :
                    n < m =>
                        PathTextLen(PathGadgets(gadgets, result.value[n]))
                          <= PathTextLen(PathGadgets(gadgets, result.value[m]))

\* C22, a search that returned three paths, the last of three gadgets, found
\* before the second of two gadgets.
C22_ThreePathsRanked ==
    /\ result.done
    /\ ~result.isNone
    /\ Len(result.value) = 3
    /\ Len(result.value[2]) = 2
    /\ Len(result.value[3]) = 3
    /\ ord[1] = 101

\* ------------------------------------- the claims: the next gadget address

\* The number of padding words pass 1 added after the stack arguments of the
\* n-th Call it built.
PadsAfter(n) ==
    IF Resumes(calls[n].idx)
    THEN RangeLen(FixBytes(StackArgs(chain[calls[n].idx]), arch),
                  gadgets[calls[n].adjust].move, context_bytes(arch))
    ELSE 0

\* The index of the slot after the last slot of the n-th Call's stack
\* arguments, padding included.
RegionEnd(n) == calls[n].first + Len(StackArgs(chain[calls[n].idx])) + PadsAfter(n)

\* The address of the slot with index k.
AddressOfSlot(k) == base + k * context_bytes(arch)

\* The positions of the NextGadgetAddress markers among the stack arguments
\* of the n-th Call.
Markers(n) ==
    {j \in DOMAIN StackArgs(chain[calls[n].idx]) :
        StackArgs(chain[calls[n].idx])[j] = NextGadgetAddress}

\* C23: for every Call, a stack argument that is a NextGadgetAddress marker
\* is built as the address of the slot right after the last slot of the
\* Call's stack arguments, which is where the next chain element begins, or
\* the end of the stack for the last element.
C23_NextGadgetAfterArguments ==
    pc = "pass2" =>
        \A n \in DOMAIN calls :
            /\ calls[n].idx = Len(chain) => RegionEnd(n) = Len(stack1)
            /\ \A j \in Markers(n) :
                  stack1[calls[n].first + j] = IntV(AddressOfSlot(RegionEnd(n)))

\* C23, a Call that resumes and is the last element, whose marker was built
\* as the address of the last slot of the stack, the marker's own.
C23_LastCallPointsAtOwnSlot ==
    /\ pc = "pass2"
    /\ \E n \in DOMAIN calls :
          /\ calls[n].idx = Len(chain)
          /\ chain[calls[n].idx].abi.returns
          /\ Markers(n) = {Len(StackArgs(chain[calls[n].idx]))}
          /\ stack1[Len(stack1)] = IntV(AddressOfSlot(Len(stack1) - 1))

\* --------------------------------------------------- the claims: migrate

\* The elements a step appended to the chain.
Appended == SubSeq(chain', Len(chain) + 1, Len(chain'))

\* Whether the chain element v is a gadget of the binary with these
\* instructions.
IsGadget(v, insns) ==
    /\ v.t = "Gadget"
    /\ v.address \in DOMAIN gadgets
    /\ gadgets[v.address].insns = insns

\* The direct path: the pop of the stack pointer, then next_base.
DirectPivot(next_base) ==
    /\ Len(Appended) = 2
    /\ IsGadget(Appended[1], <<"pop sp", "ret">>)
    /\ Appended[2] = IntV(next_base)

\* The fallback: the pop of the base pointer, next_base less one word, leave.
FallbackPivot(next_base) ==
    /\ Len(Appended) = 3
    /\ IsGadget(Appended[1], <<"pop bp", "ret">>)
    /\ Appended[2] = IntV(next_base - context_bytes(arch))
    /\ IsGadget(Appended[3], <<"leave", "ret">>)

\* C24: a migrate(next_base) that seals the chain has appended either the
\* `pop <stack pointer>; ret` gadget and next_base, or the
\* `pop <base pointer>; ret` gadget, next_base minus one word of the
\* architecture, and a leave gadget, and nothing else.
C24_MigrateAppendsPivot ==
    [][(~migrated /\ migrated' /\ last'.op = "migrate") =>
          \E next_base \in NextBases :
              DirectPivot(next_base) \/ FallbackPivot(next_base)]_vars

\* C24, a 64-bit binary with a leave gadget after migrate(32) took the
\* fallback: next_base less 4, and the call shorthand in place of the gadget.
C24_FallbackOnAmd64 ==
    /\ arch = "amd64"
    /\ migrated
    /\ last = [op |-> "migrate", ok |-> TRUE, error |-> ""]
    /\ 110 \in DOMAIN gadgets
    /\ chain = <<GadgetV(109), IntV(28), CallShorthand("leave")>>


\* ------------------------------------------------ C25: build and its inputs

\* A step of build(): of its first pass, of its second pass, or its return.
BuildStep ==
    \/ pc = "pass2"
    \/ pc' = "pass2"
    \/ Len(returned') > Len(returned)

RECURSIVE PaddingRun(_, _)
PaddingRun(seq, k) ==
    IF k < Len(seq) /\ seq[k + 1] = Padding THEN PaddingRun(seq, k + 1) ELSE k

\* The index of the first slot of the chain element that follows the n-th
\* Call: the slot after the Call's stack arguments and their padding.
NextElementSlot(n) ==
    PaddingRun(stack1, calls[n].first + Len(StackArgs(chain[calls[n].idx])))

\* Where the stack pointer is when the cleanup gadget of the n-th Call
\* returns: the address of the gadget's slot plus the gadget's move.
Landing(n) == AddressOfSlot(calls[n].first - 1) + gadgets[calls[n].adjust].move

\* C26: for a Call that resumes and is followed by more chain elements, the
\* slot before the stack arguments holds the cleanup gadget, the next chain
\* element begins exactly at (address of that slot + the gadget's move), and
\* that address is the value of every NextGadgetAddress argument.
C26_NextElementAtCleanupMove ==
    pc = "pass2" =>
        \A n \in DOMAIN calls :
            Resumes(calls[n].idx) =>
                /\ stack1[calls[n].first] = IntV(calls[n].adjust)
                /\ AddressOfSlot(NextElementSlot(n)) = Landing(n)
                /\ \A j \in Markers(n) :
                      stack1[calls[n].first + j] = IntV(Landing(n))

\* C26, a Call cleaned up by a gadget whose move is not a multiple of the
\* word: the next chain element begins past the address the gadget returns
\* through.
C26_NextElementPastLanding ==
    /\ pc = "pass2"
    /\ \E n \in DOMAIN calls :
          /\ Resumes(calls[n].idx)
          /\ gadgets[calls[n].adjust].move % context_bytes(arch) # 0
          /\ Markers(n) # {}
          /\ AddressOfSlot(NextElementSlot(n)) > Landing(n)

====
